---- MODULE Spec2Model ----
(***************************************************************************)
(* dt-dashboard: the `check` command.                                      *)
(*                                                                         *)
(* The model follows the final variant of check.ts                         *)
(* (src/unnamed/part_006, lines 314-805): CheckCommand.execute launches    *)
(* #checkPackageCached for every descriptor at once (Promise.all); each    *)
(* #checkPackageCached reads the previous record, calls #checkPackage and  *)
(* writes the new record.  Every `await` of a file operation or of a       *)
(* request is the boundary between two actions of the model; what runs     *)
(* between two of them is one action (reading the body of an answer that   *)
(* has arrived is part of the action that handles the answer, and the      *)
(* counter update that follows writeFile is part of the write).            *)
(*                                                                         *)
(* The scenario family "unpkg" follows the earlier variant of the same     *)
(* file (part_006, lines 806-1028): its #checkPackageCached is the same    *)
(* code, its #checkPackage fetched package.json from unpkg.com and is the  *)
(* only one that raises FatalError.                                        *)
(***************************************************************************)
EXTENDS Integers, Sequences, FiniteSets, TLC

(***************************************************************************)
(* Bounds of the model.                                                    *)
(***************************************************************************)
\* descriptors processed concurrently in the orchestrator scenarios
NPkgs == 2
\* consecutive runs of `check` (the output of one is the input of the next)
MaxRuns == 2
\* largest major / minor number of a declared or published version
MaxMajor == 2
MaxMinor == 2
\* descriptors in flight in the scope "load" (above both queue limits)
MaxLoad == 21

(***************************************************************************)
(* Program constants.                                                      *)
(***************************************************************************)
\* common.ts: export const dashboardVersion = 8
dashboardVersion == 8
\* new PQueue({ concurrency: ... }): #pacoteQueue, a queue of #fetchQueues, and
\* the single #fetchQueue of the unpkg variant
pacoteConcurrency == 20
fetchConcurrency == 10
fetchConcurrencyUnpkg == 8

\* part_006, line 920: the literal the unpkg variant wrote
dashboardVersionUnpkg == 1

(***************************************************************************)
(* Version strings.                                                        *)
(*                                                                         *)
(* A version string is modelled by the numbers it spells and by its form:  *)
(*   "canonical"  1.2.3          what SemVer.format() prints               *)
(*   "loose"      =1.2.3         accepted only by loose parsing            *)
(*   "invalid"    not a version  rejected even by loose parsing            *)
(* pre = TRUE marks a prerelease (1.2.3-beta).  Two version strings are    *)
(* the same string iff the records are equal.                              *)
(***************************************************************************)
VersionString(major, minor, patch, pre, form) ==
    [major |-> major, minor |-> minor, patch |-> patch, pre |-> pre, form |-> form]

InvalidVersionString == VersionString(0, 0, 0, FALSE, "invalid")

\* new semver.SemVer(s, { loose: true }) throws TypeError("Invalid Version") or not
LooseValid(s) == s.form # "invalid"

\* the parsed SemVer object: the numbers without the spelling
SemVer(s) == [major |-> s.major, minor |-> s.minor, patch |-> s.patch, pre |-> s.pre]

\* SemVer.format(): the canonical spelling
Format(v) == VersionString(v.major, v.minor, v.patch, v.pre, "canonical")

\* semver precedence: a prerelease sorts before its release
VersionLess(a, b) ==
    \/ a.major < b.major
    \/ a.major = b.major /\ a.minor < b.minor
    \/ a.major = b.major /\ a.minor = b.minor /\ a.patch < b.patch
    \/ a.major = b.major /\ a.minor = b.minor /\ a.patch = b.patch /\ a.pre /\ ~b.pre

(***************************************************************************)
(* JSON values, as far as the code inspects them.                          *)
(***************************************************************************)
Undefined == [t |-> "undefined"]
Null == [t |-> "null"]
Str(v) == [t |-> "string", v |-> v]
\* an object with its own keys in insertion order and the values beside them
Obj(keys, vals) == [t |-> "object", keys |-> keys, vals |-> vals]

\* !!x
Truthy(j) == j.t \in {"string", "object"}

(***************************************************************************)
(* File names.  A path is a sequence of segments, a segment is a stem      *)
(* followed by its dot-separated suffixes: index.d.ts is                   *)
(* Seg("index", <<"d", "ts">>).                                            *)
(***************************************************************************)
Seg(stem, sfx) == [stem |-> stem, sfx |-> sfx]
Dot == Seg(".", <<>>)
DotDot == Seg("..", <<>>)
Front(s) == SubSeq(s, 1, Len(s) - 1)
Last(s) == s[Len(s)]

\* path.extname: the suffix after the last dot of the last segment, "" if none
\* (a leading dot alone, as in .npmrc, is no extension)
extname(p) ==
    IF Len(p) = 0 THEN ""
    ELSE LET b == Last(p) IN
         IF Len(b.sfx) = 0 \/ (b.stem = "" /\ Len(b.sfx) = 1) THEN "" ELSE Last(b.sfx)

\* path.posix.resolve(`/`, p): "." dropped, ".." pops, never above the root
RECURSIVE resolveFrom(_, _)
resolveFrom(acc, p) ==
    IF Len(p) = 0 THEN acc
    ELSE LET h == p[1] IN
         resolveFrom(IF h = Dot THEN acc
                     ELSE IF h = DotDot THEN (IF Len(acc) = 0 THEN acc ELSE Front(acc))
                     ELSE Append(acc, h),
                     Tail(p))

resolve(parent, p) == resolveFrom(parent, p)

\* declarationMappings: .cjs -> .d.cts, .mjs -> .d.mts, .js -> .d.ts
declarationMappings(ext) ==
    CASE ext = "cjs" -> <<"d", "cts">>
      [] ext = "mjs" -> <<"d", "mts">>
      [] ext = "js" -> <<"d", "ts">>
      [] OTHER -> <<>>

\* filenameToPossibleDeclarations with X.d.ts as the one candidate of a target
\* without a mapped extension
filenameToOneDeclaration(filename) ==
    LET ext == extname(filename)
        staticMapping == declarationMappings(ext)
        b == Last(filename)
        withSfx(sfx) == Append(Front(filename), Seg(b.stem, sfx))
    IN  IF staticMapping # <<>>
        THEN {resolve(<<>>, withSfx(Front(b.sfx) \o staticMapping))}
        ELSE {resolve(<<>>, withSfx(b.sfx \o <<"d", "ts">>))}

\* filenameToPossibleDeclarations(filename), for a non-empty file name:
\* the set of its array's elements
filenameToPossibleDeclarations(filename) ==
    LET ext == extname(filename)
        staticMapping == declarationMappings(ext)
        b == Last(filename)
        withSfx(sfx) == Append(Front(filename), Seg(b.stem, sfx))
    IN  IF staticMapping # <<>>
        THEN {resolve(<<>>, withSfx(Front(b.sfx) \o staticMapping))}
        ELSE {resolve(<<>>, withSfx(b.sfx \o <<"d", "ts">>)),
              resolve(<<>>, Append(filename, Seg("index", <<"d", "ts">>)))}

\* dtsMatcher = **/*.d.{ts,cts,mts,*.ts}, matched against an absolute file name:
\* no segment on the way may start with a dot, and the last one ends in
\* .d.ts, .d.cts, .d.mts or .d.<something>.ts
dtsMatcher(filename) ==
    /\ Len(filename) > 0
    /\ \A i \in 1..Len(filename) : filename[i].stem # ""
    /\ LET sfx == Last(filename).sfx
           n == Len(sfx)
       IN  \/ n >= 2 /\ sfx[n - 1] = "d" /\ sfx[n] \in {"ts", "cts", "mts"}
           \/ n >= 3 /\ sfx[n] = "ts" /\ \E i \in 1..(n - 2) : sfx[i] = "d"

\* includesNodeModules that excludes nothing
includesNothing(filename) == FALSE

\* filename.includes(`/node_modules/`): a segment node_modules that is not the last
includesNodeModules(filename) ==
    \E i \in 1..(Len(filename) - 1) : filename[i] = Seg("node_modules", <<>>)

(***************************************************************************)
(* npm manifests (NpmManifest) and the typed-ness check on them.           *)
(***************************************************************************)
Manifest(version, deprecated, types, typings, exports, main, type) ==
    [version |-> version, deprecated |-> deprecated, types |-> types,
     typings |-> typings, exports |-> exports, main |-> main, type |-> type]

\* Object.values(p.exports).some((value) => typeof value !== `string` && value.types)
\* scanned in order: "typed" at the first truthy value.types, "throws" at a
\* null value met before it (null.types is a TypeError), else "untyped"
RECURSIVE someValueTyped(_, _)
someValueTyped(vals, i) ==
    IF i > Len(vals) THEN "untyped"
    ELSE LET value == vals[i] IN
         IF value.t = "string" THEN someValueTyped(vals, i + 1)
         ELSE IF value.t = "null" THEN "throws"
         ELSE IF value.t = "object"
                 /\ \E k \in 1..Len(value.keys) :
                        value.keys[k] = "types" /\ Truthy(value.vals[k])
         THEN "typed"
         ELSE someValueTyped(vals, i + 1)

\* packageJSONIsTyped(p): "typed", "untyped" or "throws"
packageJSONIsTyped(p) ==
    IF Truthy(p.types) \/ Truthy(p.typings) THEN "typed"
    ELSE IF p.exports.t = "object" THEN someValueTyped(p.exports.vals, 1)
    ELSE "untyped"

\* typeof x, after `x ??= undefined`
typeofJs(j) == IF j.t = "null" THEN "undefined"
               ELSE IF j.t = "array" THEN "object" ELSE j.t

SeqToSet(s) == {s[i] : i \in 1..Len(s)}

\* exportsSimilar that stops at the typeof comparison
exportsSimilarByTypeof(a, b) == typeofJs(a) = typeofJs(b)

\* exportsSimilar(a, b)
exportsSimilar(a, b) ==
    IF typeofJs(a) # typeofJs(b) THEN FALSE
    ELSE IF typeofJs(a) # "object" \/ typeofJs(b) # "object" THEN TRUE
    ELSE IF a.t = "array" \/ b.t = "array" THEN TRUE
    ELSE Len(a.keys) = Len(b.keys) /\ SeqToSet(a.keys) = SeqToSet(b.keys)

(***************************************************************************)
(* Published file trees (Metadata) and their traversal.                    *)
(***************************************************************************)
File(name, path) == [type |-> "file", name |-> name, path |-> path]
Directory(name, path, files) ==
    [type |-> "directory", name |-> name, path |-> path, files |-> files]
Files(files) == [t |-> "array", items |-> files]

\* iterate that passes over an entry without name and path
RECURSIVE iterateSkipping(_, _)
iterateSkipping(parent, files) ==
    IF Len(files) = 0 THEN [threw |-> FALSE, names |-> <<>>]
    ELSE LET file == files[1]
             rest == iterateSkipping(parent, Tail(files))
         IN  IF file.path.t # "string" /\ file.name.t # "string" THEN rest
             ELSE LET absPath == IF file.path.t = "string" THEN file.path.v
                                 ELSE resolve(parent, file.name.v)
                      here == IF file.type = "file" THEN <<absPath>>
                              ELSE IF file.files.t = "array"
                              THEN iterateSkipping(absPath, file.files.items).names
                              ELSE <<>>
                  IN  [threw |-> FALSE, names |-> here \o rest.names]

forEachFileSkipping(metadata) ==
    IF metadata.files.t = "array" THEN iterateSkipping(<<>>, metadata.files.items)
    ELSE [threw |-> FALSE, names |-> <<>>]

\* forEachFileInMetadata / iterate(parent, files): the absolute names yielded,
\* in order, and whether the walk threw `File has no name or path`
RECURSIVE iterate(_, _)
iterate(parent, files) ==
    IF Len(files) = 0 THEN [threw |-> FALSE, names |-> <<>>]
    ELSE LET file == files[1]
             absPath == IF file.path.t = "string" THEN file.path.v
                        ELSE IF file.name.t = "string"
                        THEN resolve(parent, file.name.v) ELSE <<>>
             hasPath == IF file.path.t = "string" THEN TRUE ELSE file.name.t = "string"
         IN  IF ~hasPath THEN [threw |-> TRUE, names |-> <<>>]
             ELSE LET here == IF file.type = "file"
                              THEN [threw |-> FALSE, names |-> <<absPath>>]
                              ELSE IF file.files.t = "array"
                              THEN iterate(absPath, file.files.items)
                              ELSE [threw |-> FALSE, names |-> <<>>]
                  IN  IF here.threw THEN [threw |-> TRUE, names |-> here.names]
                      ELSE LET rest == iterate(parent, Tail(files))
                           IN  [threw |-> rest.threw, names |-> here.names \o rest.names]

forEachFileInMetadata(metadata) ==
    IF metadata.files.t = "array" THEN iterate(<<>>, metadata.files.items)
    ELSE [threw |-> FALSE, names |-> <<>>]

\* walkObject(exports): the string leaves of the exports map
RECURSIVE walkObject(_)
walkObject(exports) ==
    IF exports.t = "string" THEN {exports.v}
    ELSE IF exports.t = "object"
    THEN UNION {walkObject(exports.vals[i]) : i \in 1..Len(exports.vals)}
    ELSE {}

\* the candidate set built in #checkPackage before the file list is scanned
candidates(fullManifest) ==
    IF Truthy(fullManifest.exports)
    THEN UNION {filenameToPossibleDeclarations(c) : c \in walkObject(fullManifest.exports)}
    ELSE {<<Seg("index", <<"d", "ts">>)>>}
         \cup (IF fullManifest.main.t = "string"
               THEN filenameToPossibleDeclarations(fullManifest.main.v) ELSE {})

\* lines 644-666: the callback runs on every file name in the order of the
\* listing and keeps foundEntrypoint / foundOther; hasTypes is `entrypoint`,
\* `other` or undefined
RECURSIVE scanNames(_, _, _, _)
scanNames(cands, names, foundEntrypoint, foundOther) ==
    IF Len(names) = 0
    THEN (IF foundEntrypoint THEN "entrypoint"
          ELSE IF foundOther THEN "other" ELSE "undefined")
    ELSE LET filename == names[1] IN
         IF includesNodeModules(filename)
         THEN scanNames(cands, Tail(names), foundEntrypoint, foundOther)
         ELSE scanNames(cands, Tail(names),
                        foundEntrypoint \/ filename \in cands,
                        foundOther \/ dtsMatcher(filename))

hasTypesOtherFirst(fullManifest, names) ==
    LET r == scanNames(candidates(fullManifest), names, FALSE, FALSE)
    IN  IF r = "entrypoint" /\ \E k \in 1..Len(names) :
              ~includesNodeModules(names[k]) /\ names[k] \notin candidates(fullManifest)
                                              /\ dtsMatcher(names[k])
        THEN "other" ELSE r

hasTypesFromFiles(fullManifest, names) ==
    scanNames(candidates(fullManifest), names, FALSE, FALSE)

(***************************************************************************)
(* Descriptors (TypingsData), statuses (CachedStatus), records (CachedInfo)*)
(***************************************************************************)
TypingsData(unescapedName, subDirectoryPath, major, minor, nonNpm, isLatest, packageJsonType, exports) ==
    [unescapedName |-> unescapedName, fullNpmName |-> <<"@types/", unescapedName>>,
     subDirectoryPath |-> subDirectoryPath, major |-> major, minor |-> minor,
     nonNpm |-> nonNpm, isLatest |-> isLatest,
     packageJsonType |-> packageJsonType, exports |-> exports]

NoStatus == [kind |-> "none"]
Found(current, outOfDate, hasTypes, packageJsonTypeMatches, exportsSim, isDeprecated) ==
    [kind |-> "found", current |-> current, outOfDate |-> outOfDate,
     hasTypes |-> hasTypes, packageJsonTypeMatches |-> packageJsonTypeMatches,
     exportsSimilar |-> exportsSim, isDeprecated |-> isDeprecated]
Kind(kind) == [kind |-> kind]
ErrorStatus(message) == [kind |-> "error", message |-> message]

StatusKinds ==
    {"found", "not-in-registry", "unpublished", "missing-version", "non-npm",
     "conflict", "error"}

\* `${data.major}.${data.minor}`
typesVersionOf(data) == <<data.major, ".", data.minor>>

\* CachedInfo whose typesVersion is the declared major alone
CachedInfoByMajor(version, data, status) ==
    [t |-> "record", dashboardVersion |-> version, fullNpmName |-> data.fullNpmName,
     subDirectoryPath |-> data.subDirectoryPath, typesVersion |-> <<data.major>>,
     unescapedName |-> data.unescapedName, status |-> status]

\* lines 488-495: the record that line 498 writes
CachedInfo(version, data, status) ==
    [t |-> "record", dashboardVersion |-> version, fullNpmName |-> data.fullNpmName,
     subDirectoryPath |-> data.subDirectoryPath, typesVersion |-> typesVersionOf(data),
     unescapedName |-> data.unescapedName, status |-> status]

\* what a cache file can hold besides a record
AbsentFile == [t |-> "absent"]
CorruptFile == [t |-> "corrupt"]
\* readFile rejects for another reason than ENOENT (EACCES, EISDIR)
UnreadableFile == [t |-> "unreadable"]

\* JSON.stringify (line 498) leaves out the keys whose value is undefined:
\* the keys of the status st that the written document has
writtenKeys(st) ==
    {k \in DOMAIN st : ~(k \in {"outOfDate", "hasTypes"} /\ st[k] = "undefined")}

\* the status schema: per kind the keys a document must have, the optional
\* ones with their literals, and no key besides them
acceptsStatus(st) ==
    LET keys == writtenKeys(st) IN
    IF st.kind = "found"
    THEN /\ {"kind", "current", "packageJsonTypeMatches", "exportsSimilar",
              "isDeprecated"} \subseteq keys
         /\ keys \subseteq {"kind", "current", "packageJsonTypeMatches", "exportsSimilar",
                            "isDeprecated", "outOfDate", "hasTypes"}
         /\ "outOfDate" \in keys => st.outOfDate \in {"major", "minor", "too-new"}
         /\ "hasTypes" \in keys => st.hasTypes \in {"package.json", "entrypoint", "other"}
         /\ st.packageJsonTypeMatches \in BOOLEAN
         /\ st.exportsSimilar \in BOOLEAN
         /\ st.isDeprecated \in BOOLEAN
    ELSE IF st.kind = "error" THEN keys = {"kind", "message"}
    ELSE st.kind \in StatusKinds /\ keys = {"kind"}

\* CachedInfo.parse(JSON.parse(contents)): the record, or undefined where the
\* code's try/catch swallows the failure (missing file, invalid JSON, a record
\* of another schema version, a status the schema does not accept)
ParseCachedInfo(contents) ==
    IF contents.t = "record" /\ contents.dashboardVersion = dashboardVersion
       /\ contents.status.kind \in StatusKinds /\ acceptsStatus(contents.status)
    THEN contents ELSE Undefined

\* cachedStatusFor without the two fences: any record's status is handed on
cachedStatusUnfenced(data, contents) ==
    IF contents.t = "record" THEN contents.status ELSE NoStatus

\* cachedStatusFor without CachedInfo.parse: whatever is JSON is a record
cachedStatusUnparsed(data, contents) ==
    IF contents.t = "record" /\ contents.typesVersion = typesVersionOf(data)
    THEN contents.status ELSE NoStatus

\* #checkPackageCached, lines 462-479: the prior status handed to #checkPackage
cachedStatusFor(data, contents) ==
    LET cached == ParseCachedInfo(contents)
    IN  IF cached.t = "record" /\ cached.typesVersion = typesVersionOf(data)
        THEN cached.status ELSE NoStatus

\* filenameOf that names the file after the package directory alone
filenameOfPackage(subDirectoryPath) ==
    LET seps == {i \in 1..Len(subDirectoryPath) : subDirectoryPath[i] \in {"/", "\\"}}
    IN  (IF seps = {} THEN subDirectoryPath
         ELSE SubSeq(subDirectoryPath, 1, (CHOOSE i \in seps : \A j \in seps : i <= j) - 1))
        \o <<".json">>

\* line 459: data.subDirectoryPath.replace(/[/\\]/g, `@`) + `.json`
filenameOf(subDirectoryPath) ==
    [i \in 1..Len(subDirectoryPath) |->
        IF subDirectoryPath[i] \in {"/", "\\"} THEN "@" ELSE subDirectoryPath[i]]
    \o <<".json">>

\* lines 458 and 497: path.join(outputDir, filename) below --output; the same
\* relative path below --input is read (lines 457 and 464)
outputPathBySegment(data) ==
    LET sub == data.subDirectoryPath
        seps == {i \in 1..Len(sub) : sub[i] \in {"/", "\\"}}
        first == IF seps = {} THEN sub
                 ELSE SubSeq(sub, 1, (CHOOSE i \in seps : \A j \in seps : i <= j) - 1)
    IN  first \o <<"/">> \o filenameOf(sub)

\* a string is the sequence of its characters: subDirectoryPath[0] is the first
\* character of the path
outputPathOf(data) == <<data.subDirectoryPath[1], "/">> \o filenameOf(data.subDirectoryPath)

(***************************************************************************)
(* #checkPackage, the pure parts.                                          *)
(***************************************************************************)
\* version specifiers handed to pacote: `latest`, `${major}`, `${major}.${minor}`
\* or an exact version string
LatestTag == [t |-> "tag", tag |-> "latest"]
MajorSpec(major) == [t |-> "major", major |-> major]
MajorMinorSpec(major, minor) == [t |-> "major.minor", major |-> major, minor |-> minor]
ExactSpec(version) == [t |-> "exact", version |-> version]

\* specifierOf without the 0.x case
specifierByMajor(data) == MajorSpec(data.major)

\* lines 509-510
specifierOf(data) ==
    IF data.major = 0 THEN MajorMinorSpec(data.major, data.minor) ELSE MajorSpec(data.major)

\* line 512
specifierOrLatestOf(data) == IF data.isLatest THEN LatestTag ELSE specifierOf(data)

\* semver.satisfies(version, `^${specifier}`, { loose: true, includePrerelease: true }):
\* ^M is >=M.0.0-0 <(M+1).0.0-0 and ^0.m is >=0.m.0-0 <0.(m+1).0-0
satisfiesCaret(version, specifier) ==
    /\ LooseValid(version)
    /\ version.major = specifier.major
    /\ specifier.t = "major.minor" => version.minor = specifier.minor

\* semver.compare(b, a) parses strictly: it throws on a spelling only loose
\* parsing accepts
StrictValid(s) == s.form = "canonical"

\* pickFromPackument with the list sorted lowest first
pickLowestFromPackument(versions, specifier) ==
    LET matching == {v \in versions : satisfiesCaret(v, specifier)}
    IN  IF Cardinality(matching) >= 2 /\ \E v \in matching : ~StrictValid(v)
        THEN [threw |-> TRUE, found |-> FALSE, latest |-> InvalidVersionString]
        ELSE IF matching = {}
        THEN [threw |-> FALSE, found |-> FALSE, latest |-> InvalidVersionString]
        ELSE [threw |-> FALSE, found |-> TRUE,
              latest |-> CHOOSE v \in matching :
                             \A w \in matching : ~VersionLess(SemVer(w), SemVer(v))]

\* lines 556-560: the versions of the packument that satisfy the range, sorted
\* highest first; "threw" when the comparator met a spelling it cannot parse
pickFromPackument(versions, specifier) ==
    LET matching == {v \in versions : satisfiesCaret(v, specifier)}
    IN  IF Cardinality(matching) >= 2 /\ \E v \in matching : ~StrictValid(v)
        THEN [threw |-> TRUE, found |-> FALSE, latest |-> InvalidVersionString]
        ELSE IF matching = {}
        THEN [threw |-> FALSE, found |-> FALSE, latest |-> InvalidVersionString]
        ELSE [threw |-> FALSE, found |-> TRUE,
              latest |-> CHOOSE v \in matching :
                             \A w \in matching : ~VersionLess(SemVer(v), SemVer(w))]

\* behindDeclared that compares the major numbers only
behindDeclaredByMajor(currentVersion, data) == currentVersion.major < data.major

\* lines 547-548 and 588-589: the resolved version is behind the declared one
behindDeclared(currentVersion, data) ==
    \/ currentVersion.major < data.major
    \/ currentVersion.major = data.major /\ currentVersion.minor < data.minor

\* outOfDateOf that reports a newer minor as `major` whatever the declared major
outOfDateUngraded(data, currentVersion) ==
    IF ~data.isLatest THEN "undefined"
    ELSE IF behindDeclared(currentVersion, data) THEN "too-new"
    ELSE IF currentVersion.major > data.major THEN "major"
    ELSE IF currentVersion.minor > data.minor THEN "major"
    ELSE "undefined"

\* outOfDateOf that grades a newer minor as `minor` whatever the declared major
outOfDateUniform(data, currentVersion) ==
    IF ~data.isLatest THEN "undefined"
    ELSE IF behindDeclared(currentVersion, data) THEN "too-new"
    ELSE IF currentVersion.major > data.major THEN "major"
    ELSE IF currentVersion.minor > data.minor THEN "minor"
    ELSE "undefined"

\* outOfDateOf with a declared 0.x compared by the minor number alone
outOfDateZeroByMinor(data, currentVersion) ==
    IF ~data.isLatest THEN "undefined"
    ELSE IF behindDeclared(currentVersion, data) THEN "too-new"
    ELSE IF data.major = 0
    THEN (IF currentVersion.minor > data.minor THEN "major" ELSE "undefined")
    ELSE IF currentVersion.major > data.major THEN "major"
    ELSE IF currentVersion.minor > data.minor THEN "minor"
    ELSE "undefined"

\* outOfDateOf that grades the descriptor of an older line like the latest one
outOfDateEveryDescriptor(data, currentVersion) ==
    IF behindDeclared(currentVersion, data) THEN "too-new"
    ELSE IF currentVersion.major > data.major THEN "major"
    ELSE IF currentVersion.minor > data.minor
    THEN (IF data.major = 0 THEN "major" ELSE "minor")
    ELSE "undefined"

\* lines 583-605
outOfDateOf(data, currentVersion) ==
    IF ~data.isLatest THEN "undefined"
    ELSE IF behindDeclared(currentVersion, data) THEN "too-new"
    ELSE IF currentVersion.major > data.major THEN "major"
    ELSE IF currentVersion.minor > data.minor
    THEN (IF data.major = 0 THEN "major" ELSE "minor")
    ELSE "undefined"

\* isDeprecatedOf that looks at the resolved manifest only
isDeprecatedOfResolved(fullManifest, latestManifest) == Truthy(fullManifest.deprecated)

\* line 575
isDeprecatedOf(fullManifest, latestManifest) ==
    Truthy(fullManifest.deprecated) \/ Truthy(latestManifest.deprecated)

\* cacheHit without the comparison of the deprecation flag
cacheHitOnVersion(cached, fullManifest, isDeprecated) ==
    /\ cached.kind = "found"
    /\ cached.current = fullManifest.version

\* lines 577-581: the cache short-circuit
cacheHit(cached, fullManifest, isDeprecated) ==
    /\ cached.kind = "found"
    /\ cached.current = fullManifest.version
    /\ cached.isDeprecated = isDeprecated

\* line 674
packageJsonTypeMatches(data, fullManifest) ==
    (IF data.packageJsonType = "undefined" THEN "commonjs" ELSE data.packageJsonType)
    = (IF fullManifest.type = "undefined" THEN "commonjs" ELSE fullManifest.type)

\* foundStatus that leaves outOfDate unset
foundStatusUndated(data, fullManifest, latestManifest, currentVersion, hasTypes) ==
    Found(Format(currentVersion), "undefined", hasTypes,
          packageJsonTypeMatches(data, fullManifest),
          exportsSimilar(data.exports, fullManifest.exports),
          isDeprecatedOf(fullManifest, latestManifest))

\* lines 669-677
foundStatus(data, fullManifest, latestManifest, currentVersion, hasTypes) ==
    Found(Format(currentVersion), outOfDateOf(data, currentVersion), hasTypes,
          packageJsonTypeMatches(data, fullManifest),
          exportsSimilar(data.exports, fullManifest.exports),
          isDeprecatedOf(fullManifest, latestManifest))

\* manifestFailure that does not look at the `versions` of an ETARGET error
manifestFailureByCode(data, e) ==
    IF e.code = "E404" THEN Kind("not-in-registry")
    ELSE IF e.code = "ETARGET" THEN Kind("missing-version")
    ELSE ErrorStatus(<<data.unescapedName, "failed to resolve manifest:", e.code>>)

\* lines 520-540: the status for a failed manifest resolution
manifestFailure(data, e) ==
    IF e.code = "E404" THEN Kind("not-in-registry")
    ELSE IF e.code = "ETARGET"
    THEN (IF e.versions.t # "array" \/ Len(e.versions.items) = 0
          THEN Kind("unpublished") ELSE Kind("missing-version"))
    ELSE ErrorStatus(<<data.unescapedName, "failed to resolve manifest:", e.code>>)

(***************************************************************************)
(* State.                                                                  *)
(***************************************************************************)
VARIABLES
    scope,          \* the scenario family explored (fixes the input sets)
    data,           \* allTypingsData: the descriptor of every package
    run,            \* number of the current run of `check`
    runState,       \* execute(): "running", "completed" or "failed"
    count,          \* this.count
    inputCache,     \* the files under --input, by path
    outputCache,    \* the files under --output, by path
    world,          \* what the registries answer, per package and request
    pc,             \* where each #checkPackageCached stands
    cached,         \* #checkPackage's parameter `cached`
    fullManifest,   \* #checkPackage's local fullManifest
    latestManifest, \* #checkPackage's local latestManifest
    currentVersion, \* #checkPackage's local currentVersion
    status,         \* #checkPackageCached's local status
    via,            \* which return of #checkPackage produced the status
    reqs,           \* requests issued for the package in this run
    specifiers,     \* per package: the version specifier of each manifest lookup issued
    writes,         \* writeFile calls completed for the package in this run
    pacoteQueue,    \* #pacoteQueue
    fetchQueues,    \* #fetchQueues: the queue of every hostname asked so far
    fetchQueue,     \* #fetchQueue of the unpkg variant
    load,           \* scope "load": how many #checkPackage calls stand at each await
    call            \* scope "calls": one call of a function, its argument and result

vars == <<scope, data, run, runState, count, inputCache, outputCache, world, pc,
          cached, fullManifest, latestManifest, currentVersion, status, via,
          reqs, specifiers, writes, pacoteQueue, fetchQueues, fetchQueue, load, call>>
queueVars == <<pacoteQueue, fetchQueues, fetchQueue>>

Unset == [t |-> "unset"]
NoManifest == [t |-> "none"]
NoVersion == [t |-> "none"]

ReqKinds ==
    {"manifest", "latest", "packument", "exact", "jsdelivr", "unpkg", "unpkgManifest"}
FileListingReqs == {"jsdelivr", "unpkg"}

Pkgs == DOMAIN data

currentVersionString(p) == Format(currentVersion[p])

\* the answers a request may get: the one already given in an earlier run
\* (the registries do not change between the runs), else any of `answers`
Respond(p, k, answers) == IF world[p][k] # Unset THEN {world[p][k]} ELSE answers

(***************************************************************************)
(* The queues (p-queue).  A queue runs at most `concurrency` tasks at a    *)
(* time: `pending` counts the running tasks, `size` the waiting ones.      *)
(***************************************************************************)
PQueue(concurrency, id) ==
    [concurrency |-> concurrency, pending |-> 0, size |-> 0, id |-> id]

\* add that starts every task at once
addUnbounded(queue) == [queue EXCEPT !.pending = @ + 1]

\* queue.add(task): the task starts at once below the limit, else it waits
add(queue) ==
    IF queue.pending < queue.concurrency
    THEN [queue EXCEPT !.pending = @ + 1] ELSE [queue EXCEPT !.size = @ + 1]

\* a running task settles: the first waiting task, if any, takes its place
settle(queue) ==
    IF queue.size > 0
    THEN [queue EXCEPT !.size = @ - 1] ELSE [queue EXCEPT !.pending = @ - 1]

RegistryReqs == {"manifest", "latest", "packument", "exact"}
\* the lookups of #getManifest, and a package that has issued none of them
ManifestReqs == {"manifest", "latest", "exact"}
NoSpecifiers == [k \in ManifestReqs |-> Unset]
Jsdelivr == "data.jsdelivr.com"
Unpkg == "unpkg.com"
Registry == "registry.npmjs.org"
\* new URL(url).hostname of the url of a file-listing request (lines 699 and 713)
hostname(k) == IF k = "jsdelivr" THEN Jsdelivr ELSE Unpkg

NoQueues == [h \in {} |-> PQueue(fetchConcurrency, 0)]

\* #fetch, lines 725-747: the queue of the hostname, created when the map has
\* none, takes the request
fetch(queues, host) ==
    [h \in DOMAIN queues \cup {host} |->
        IF h # host THEN queues[h]
        ELSE IF h \in DOMAIN queues THEN add(queues[h])
        ELSE add(PQueue(fetchConcurrency, Cardinality(DOMAIN queues)))]

\* the three queue fields of the command
Queues == [pacoteQueue |-> pacoteQueue, fetchQueues |-> fetchQueues, fetchQueue |-> fetchQueue]

\* request k is handed to its queue: #getManifest / #getPackument (lines
\* 681-695), #fetch (line 725), and line 949 in the unpkg variant
issued(qs, k) ==
    IF k \in RegistryReqs THEN [qs EXCEPT !.pacoteQueue = add(@)]
    ELSE IF k \in FileListingReqs
    THEN [qs EXCEPT !.fetchQueues = fetch(@, hostname(k))]
    ELSE IF k = "unpkgManifest" THEN [qs EXCEPT !.fetchQueue = add(@)]
    ELSE qs

\* the task of request k settles in its queue
settled(qs, k) ==
    IF k \in RegistryReqs THEN [qs EXCEPT !.pacoteQueue = settle(@)]
    ELSE IF k \in FileListingReqs
    THEN [qs EXCEPT !.fetchQueues = [@ EXCEPT ![hostname(k)] = settle(@)]]
    ELSE IF k = "unpkgManifest" THEN [qs EXCEPT !.fetchQueue = settle(@)]
    ELSE qs

(***************************************************************************)
(* #checkPackage between two awaits.  Each operator below is the code that *)
(* runs from one await to the next and says how it ends: it returns a      *)
(* status, throws, or awaits the answer to a request it has issued.        *)
(***************************************************************************)
Locals(fm, lm, cv) == [fullManifest |-> fm, latestManifest |-> lm, currentVersion |-> cv]

Return(st, how, loc) == [do |-> "return", status |-> st, via |-> how, loc |-> loc]
Throw(class, message, loc) ==
    [do |-> "throw", class |-> class, message |-> message, loc |-> loc]
Await(kind, loc) == [do |-> "await", req |-> kind, loc |-> loc]
\* await this.#getManifest(name, specifier, true)
AwaitManifest(kind, specifier, loc) ==
    [do |-> "await", req |-> kind, specifier |-> specifier, loc |-> loc]

\* lines 644-677: scan the file list and return `found`
scanFiles(d, loc, metadata) ==
    LET walk == forEachFileInMetadata(metadata)
    IN  IF walk.threw THEN Throw("Error", <<"File has no name or path">>, loc)
        ELSE Return(foundStatus(d, loc.fullManifest, loc.latestManifest,
                                loc.currentVersion,
                                hasTypesFromFiles(loc.fullManifest, walk.names)),
                    "fresh", loc)

\* decide that lists the files whatever the manifest says
decideByListing(d, c, loc) ==
    LET isDeprecated == isDeprecatedOf(loc.fullManifest, loc.latestManifest)
        typed == packageJSONIsTyped(loc.fullManifest)
    IN  IF cacheHit(c, loc.fullManifest, isDeprecated) THEN Return(c, "cache", loc)
        ELSE IF typed = "throws"
        THEN Throw("TypeError", <<"Cannot read properties of null">>, loc)
        ELSE Await("jsdelivr", loc)

\* lines 575-611: deprecation flag, cache short-circuit, typed-ness of the manifest
decide(d, c, loc) ==
    LET isDeprecated == isDeprecatedOf(loc.fullManifest, loc.latestManifest)
        typed == packageJSONIsTyped(loc.fullManifest)
    IN  IF cacheHit(c, loc.fullManifest, isDeprecated) THEN Return(c, "cache", loc)
        ELSE IF typed = "throws"
        THEN Throw("TypeError", <<"Cannot read properties of null">>, loc)
        ELSE IF typed = "typed"
        THEN Return(foundStatus(d, loc.fullManifest, loc.latestManifest,
                                loc.currentVersion, "package.json"), "fresh", loc)
        ELSE Await("jsdelivr", loc)

\* lines 542-555: parse the resolved version, ask for the packument when the
\* `latest` manifest is behind the declared version
parseVersion(d, c, fm, lm) ==
    IF ~LooseValid(fm.version)
    THEN Throw("TypeError", <<"Invalid Version">>, Locals(fm, lm, NoVersion))
    ELSE LET cv == SemVer(fm.version) IN
         IF specifierOrLatestOf(d) = LatestTag /\ behindDeclared(cv, d)
         THEN Await("packument", Locals(fm, lm, cv))
         ELSE decide(d, c, Locals(fm, lm, cv))

\* e of the catch at line 520, for an answer that is no manifest
manifestError(r) ==
    IF r.t = "error" THEN r ELSE [t |-> "error", code |-> "undefined", versions |-> Undefined]

\* checkPackageStart without the marker check of lines 505-507
checkPackageStartUnmarked(d, c) ==
    AwaitManifest("manifest", specifierOrLatestOf(d), Locals(NoManifest, NoManifest, NoVersion))

\* lines 505-517: the start of #checkPackage
checkPackageStart(d, c) ==
    IF d.nonNpm \in {"true", "conflict"}
    THEN Return(Kind(IF d.nonNpm = "conflict" THEN "conflict" ELSE "non-npm"), "nonNpm",
                Locals(NoManifest, NoManifest, NoVersion))
    ELSE AwaitManifest("manifest", specifierOrLatestOf(d),
                       Locals(NoManifest, NoManifest, NoVersion))

\* lines 517-540: the answer to getManifest(name, specifierOrLatest)
onManifest(d, c, r) ==
    IF r.t # "manifest"
    THEN Return(manifestFailure(d, manifestError(r)), "manifestFailure",
                Locals(NoManifest, NoManifest, NoVersion))
    ELSE IF specifierOrLatestOf(d) = LatestTag
    THEN parseVersion(d, c, r.manifest, r.manifest)
    ELSE AwaitManifest("latest", LatestTag, Locals(r.manifest, NoManifest, NoVersion))

\* lines 518-540: the answer to getManifest(name, `latest`) of a versioned descriptor
onLatest(d, c, loc, r) ==
    IF r.t # "manifest"
    THEN Return(manifestFailure(d, manifestError(r)), "manifestFailure", loc)
    ELSE parseVersion(d, c, loc.fullManifest, r.manifest)

\* lines 555-562: the answer to getPackument(name)
onPackument(d, c, loc, r) ==
    IF r.t # "packument" THEN decide(d, c, loc)
    ELSE LET pick == pickFromPackument(r.versions, specifierOf(d)) IN
         IF pick.threw \/ ~pick.found THEN decide(d, c, loc)
         ELSE AwaitManifest("exact", ExactSpec(pick.latest), loc)

\* lines 563-573: the answer to getManifest(name, latest) inside the try
onExact(d, c, loc, r) ==
    IF r.t # "manifest" THEN decide(d, c, loc)
    ELSE IF ~LooseValid(r.manifest.version)
    THEN decide(d, c, Locals(r.manifest, loc.latestManifest, loc.currentVersion))
    ELSE decide(d, c, Locals(r.manifest, loc.latestManifest, SemVer(r.manifest.version)))

\* onJsdelivr that falls back on a non-OK answer only
onJsdelivrStrict(d, loc, r) ==
    IF r.t = "throw" THEN Throw("FetchError", <<"request failed">>, loc)
    ELSE IF ~r.ok THEN Await("unpkg", loc)
    ELSE IF r.body.t # "metadata" THEN Throw("ValitaError", <<"invalid metadata">>, loc)
    ELSE scanFiles(d, loc, r.body)

\* #tryGetPackageMetadata, lines 700-710: the answer of data.jsdelivr.com
onJsdelivr(d, loc, r) ==
    IF r.t = "throw" THEN Throw("FetchError", <<"request failed">>, loc)
    ELSE IF r.ok /\ r.body.t = "metadata" THEN scanFiles(d, loc, r.body)
    ELSE Await("unpkg", loc)

\* #tryGetPackageMetadata, lines 713-721, and lines 612-616: the answer of unpkg.com
onUnpkg(d, loc, r) ==
    IF r.t = "throw" THEN Throw("FetchError", <<"request failed">>, loc)
    ELSE IF ~r.ok
    THEN Return(ErrorStatus(<<"failed to fetch metadata:", r.status>>),
                "metadataFailure", loc)
    ELSE IF r.body.t # "metadata" THEN Throw("ValitaError", <<"invalid metadata">>, loc)
    ELSE scanFiles(d, loc, r.body)

\* boundary without the catch: every exception leaves #checkPackageCached
boundaryRethrowing(o) ==
    IF o.do = "return" THEN [pc |-> "write", status |-> o.status, via |-> o.via]
    ELSE IF o.do = "throw" THEN [pc |-> "fatal", status |-> NoStatus, via |-> "fatal"]
    ELSE [pc |-> o.req, status |-> NoStatus, via |-> "none"]

\* boundary that starts the reconciliation again after a failed request
boundaryRetrying(o) ==
    IF o.do = "return" THEN [pc |-> "write", status |-> o.status, via |-> o.via]
    ELSE IF o.do = "throw"
    THEN (IF o.class = "FatalError"
          THEN [pc |-> "fatal", status |-> NoStatus, via |-> "fatal"]
          ELSE [pc |-> "read", status |-> NoStatus, via |-> "none"])
    ELSE [pc |-> o.req, status |-> NoStatus, via |-> "none"]

\* #checkPackageCached, lines 477-486: the try/catch around #checkPackage.
\* What the package does next: "write" with a status, "fatal" (FatalError
\* rethrown) or the request it awaits.
boundary(o) ==
    IF o.do = "return" THEN [pc |-> "write", status |-> o.status, via |-> o.via]
    ELSE IF o.do = "throw"
    THEN (IF o.class = "FatalError"
          THEN [pc |-> "fatal", status |-> NoStatus, via |-> "fatal"]
          ELSE [pc |-> "write", status |-> ErrorStatus(o.message), via |-> "caught"])
    ELSE [pc |-> o.req, status |-> NoStatus, via |-> "none"]

(***************************************************************************)
(* The inputs explored.  A behaviour explores one scenario family:         *)
(*   "cache"     one descriptor, every kind of previous record             *)
(*   "versions"  one descriptor, every declared and published version      *)
(*   "scenarios" one latest descriptor: 0.3, 4.14 or 5.2, and the versions  *)
(*               published around it                                       *)
(*   "files"     one descriptor, every shape of manifest and file listing  *)
(*   "run"       NPkgs descriptors processed concurrently                  *)
(*   "unpkg"     NPkgs descriptors under the unpkg variant of the command  *)
(*   "load"      MaxLoad descriptors of the final variant, counted by the  *)
(*               request they wait for                                     *)
(***************************************************************************)
Names == <<"aa", "ab", "c", "d">>
\* the same names, character by character
Spelling == << <<"a", "a">>, <<"a", "b">>, <<"c">>, <<"d">> >>

PkgsOf(sc) == IF sc \in {"run", "unpkg"} THEN 1..NPkgs ELSE {1}
RunsOf(sc) == IF sc \in {"cache", "versions"} THEN MaxRuns ELSE 1

\* a descriptor of package i: versioned directories are <name>/v<major>
Descriptor(i, major, minor, isLatest, nonNpm) ==
    TypingsData(Names[i],
                IF isLatest THEN Spelling[i] ELSE Spelling[i] \o <<"/", "v", ToString(major)>>,
                major, minor, nonNpm, isLatest, "undefined", Undefined)

DescriptorsOf(sc, i) ==
    IF sc = "versions"
    THEN {Descriptor(i, M, m, l, "undefined") :
            M \in 0..MaxMajor, m \in 0..MaxMinor, l \in BOOLEAN}
    ELSE IF sc = "cache"
    THEN {Descriptor(i, 1, 1, l, n) : l \in BOOLEAN, n \in {"undefined", "true", "conflict"}}
    ELSE IF sc = "scenarios"
    THEN {Descriptor(i, 0, 3, TRUE, "undefined"), Descriptor(i, 4, 14, TRUE, "undefined"),
          Descriptor(i, 5, 2, TRUE, "undefined")}
    ELSE IF sc = "files"
    THEN {Descriptor(i, 1, 1, TRUE, "undefined")}
    ELSE IF sc = "run" /\ i = 2
    \* the second descriptor is another package or the v1 directory of the first
    THEN {Descriptor(i, 1, 1, TRUE, n) : n \in {"undefined", "true"}}
         \cup {Descriptor(1, 1, 1, FALSE, "undefined")}
    ELSE {Descriptor(i, 1, 1, TRUE, n) : n \in {"undefined", "true"}}

Canonical(major, minor, patch) == VersionString(major, minor, patch, FALSE, "canonical")
Loose(major, minor, patch) == VersionString(major, minor, patch, FALSE, "loose")
Prerelease(major, minor, patch) == VersionString(major, minor, patch, TRUE, "canonical")

IndexJs == <<Dot, Seg("index", <<"js">>)>>
IndexDts == <<Dot, Seg("index", <<"d", "ts">>)>>
NotDeprecated == Undefined
Deprecated == Str("deprecated")

\* a manifest with a `types` field, and one without any typing signal
TypedManifest(version, deprecated) ==
    Manifest(version, deprecated, Str(IndexDts), Undefined, Undefined, Str(IndexJs),
             "undefined")
UntypedManifest(version, deprecated) ==
    Manifest(version, deprecated, Undefined, Undefined, Undefined, Str(IndexJs),
             "undefined")

\* manifests of version 1.1.0 by the place of their typing signal:
\* `types`, `typings`, exports["."].types, exports.import.types,
\* exports["."].import.types, exports.types, and none (with `main` or with
\* a string export)
LibMainJs == <<Dot, Seg("lib", <<>>), Seg("main", <<"js">>)>>
Conditions == Obj(<<"types", "default">>, <<Str(IndexDts), Str(IndexJs)>>)
ShapedManifest(types, typings, exports, main) ==
    Manifest(Canonical(1, 1, 0), NotDeprecated, types, typings, exports, main, "undefined")
TypesShape == ShapedManifest(Str(IndexDts), Undefined, Undefined, Str(IndexJs))
TypingsShape == ShapedManifest(Undefined, Str(IndexDts), Undefined, Str(IndexJs))
ExportsDotTypesShape ==
    ShapedManifest(Undefined, Undefined, Obj(<<".">>, <<Conditions>>), Undefined)
ExportsImportTypesShape ==
    ShapedManifest(Undefined, Undefined, Obj(<<"import">>, <<Conditions>>), Undefined)
ExportsNestedTypesShape ==
    ShapedManifest(Undefined, Undefined,
                   Obj(<<".">>, <<Obj(<<"import">>, <<Conditions>>)>>), Undefined)
ExportsTopTypesShape == ShapedManifest(Undefined, Undefined, Conditions, Undefined)
MainShape == ShapedManifest(Undefined, Undefined, Undefined, Str(IndexJs))
ExportsStringShape ==
    ShapedManifest(Undefined, Undefined, Obj(<<".">>, <<Str(LibMainJs)>>), Undefined)
\* exports {".": "./index.js", "./internal": null}: a subpath blocked by null
ExportsNullTargetShape ==
    ShapedManifest(Undefined, Undefined,
                   Obj(<<".", "./internal">>, <<Str(IndexJs), Null>>), Undefined)
ManifestShapes ==
    {TypesShape, TypingsShape, ExportsDotTypesShape, ExportsImportTypesShape,
     ExportsNestedTypesShape, ExportsTopTypesShape, MainShape, ExportsStringShape,
     ExportsNullTargetShape}

ManifestAnswer(m) == [t |-> "manifest", manifest |-> m]
ErrorAnswer(code, versions) == [t |-> "error", code |-> code, versions |-> versions]
MalformedAnswer == [t |-> "malformed"]
Arr(items) == [t |-> "array", items |-> items]

\* the published versions explored
VersionsOf(sc) ==
    IF sc = "versions"
    THEN {VersionString(M, m, 0, FALSE, f) :
            M \in 0..MaxMajor, m \in 0..MaxMinor, f \in {"canonical", "loose"}}
         \cup {Canonical(2, 5, 0), Canonical(3, 0, 0), InvalidVersionString}
    ELSE IF sc = "cache"
    THEN {Canonical(1, 1, 0), Loose(1, 1, 0), Canonical(1, 2, 0), InvalidVersionString}
    ELSE IF sc = "scenarios"
    THEN {Canonical(0, 3, 9), Canonical(0, 4, 0), Canonical(4, 17, 21), Canonical(5, 0, 0),
          Canonical(4, 9, 0), Canonical(1, 0, 0)}
    ELSE {Canonical(1, 1, 0)}

\* pacote resolves `name@M` and `name@0.m` to a version of that line
satisfiesSpecifier(version, specifier) ==
    specifier.t \in {"major", "major.minor"} /\ LooseValid(version)
        => satisfiesCaret(version, specifier)

\* answers to getManifest(name, specifierOrLatest)
ManifestAnswers(sc, specifier) ==
    {r \in
        (IF sc = "versions"
         THEN {ManifestAnswer(TypedManifest(v, NotDeprecated)) : v \in VersionsOf(sc)}
              \cup {ErrorAnswer("E404", Undefined)}
         ELSE IF sc = "cache"
         THEN {ManifestAnswer(TypedManifest(v, dep)) :
                 v \in VersionsOf(sc), dep \in {NotDeprecated, Deprecated}}
              \cup {ManifestAnswer(UntypedManifest(v, NotDeprecated)) : v \in VersionsOf(sc)}
              \cup {ErrorAnswer("E404", Undefined), ErrorAnswer("ETARGET", Undefined),
                    ErrorAnswer("ETARGET", Arr(<<>>)),
                    ErrorAnswer("ETARGET", Arr(<<Canonical(1, 1, 0)>>)),
                    ErrorAnswer("E524", Undefined), ErrorAnswer("ETIMEDOUT", Undefined),
                    MalformedAnswer}
         ELSE IF sc = "scenarios"
         THEN {ManifestAnswer(UntypedManifest(v, NotDeprecated)) : v \in VersionsOf(sc)}
         ELSE IF sc = "files"
         THEN {ManifestAnswer(m) : m \in ManifestShapes}
         ELSE {ManifestAnswer(TypedManifest(Canonical(1, 1, 0), NotDeprecated)),
               ManifestAnswer(UntypedManifest(Canonical(1, 1, 0), NotDeprecated)),
               ErrorAnswer("E404", Undefined), ErrorAnswer("E524", Undefined)}) :
        r.t = "manifest" => satisfiesSpecifier(r.manifest.version, specifier)}

\* answers to getManifest(name, `latest`) of a versioned descriptor
LatestAnswers(sc) ==
    {ManifestAnswer(TypedManifest(Canonical(MaxMajor, 0, 0), dep)) :
        dep \in {NotDeprecated, Deprecated}}
    \cup {ErrorAnswer("ETARGET", Arr(<<Canonical(1, 1, 0)>>)), ErrorAnswer("E524", Undefined)}

\* answers to getPackument(name)
PackumentAnswer(versions) == [t |-> "packument", versions |-> versions]
PackumentAnswers(sc) ==
    IF sc = "scenarios"
    THEN {ErrorAnswer("E524", Undefined),
          PackumentAnswer({Canonical(4, 9, 0), Canonical(5, 0, 0), Canonical(5, 2, 3)}),
          PackumentAnswer({Canonical(4, 9, 0), Canonical(5, 0, 0), Canonical(5, 1, 0)}),
          PackumentAnswer({Canonical(5, 0, 0), Canonical(5, 2, 3), Prerelease(5, 3, 0)}),
          PackumentAnswer({Canonical(0, 3, 9), Canonical(0, 4, 0), Canonical(4, 9, 0)})}
    ELSE {ErrorAnswer("E524", Undefined), PackumentAnswer({}),
          PackumentAnswer({Canonical(M, m, 0) : M \in 0..MaxMajor, m \in 0..MaxMinor}),
          PackumentAnswer({Canonical(1, 1, 0), Loose(1, 2, 0)})}

\* answers to getManifest(name, <exact version>): the manifest of that
\* version, a manifest whose version does not parse, or a failure
ExactAnswers(sc, version) ==
    {ManifestAnswer(TypedManifest(version, NotDeprecated)),
     ManifestAnswer(TypedManifest(version, Deprecated)),
     ManifestAnswer(TypedManifest(InvalidVersionString, NotDeprecated)),
     MalformedAnswer, ErrorAnswer("E524", Undefined)}

\* file trees: names only (data.jsdelivr.com) or paths only (unpkg.com)
MetadataBody(files) == [t |-> "metadata", files |-> files]
MalformedBody == [t |-> "malformed"]
Response(ok, statusCode, body) ==
    [t |-> "response", ok |-> ok, status |-> statusCode, body |-> body]
Thrown == [t |-> "throw"]

TreeEntrypoint ==
    MetadataBody(Files(<<File(Str(<<Seg("index", <<"js">>)>>), Undefined),
                         File(Str(<<Seg("index", <<"d", "ts">>)>>), Undefined)>>))
TreeOther ==
    MetadataBody(Files(<<File(Undefined, Str(<<Seg("index", <<"js">>)>>)),
                         Directory(Undefined, Str(<<Seg("lib", <<>>)>>),
                             Files(<<File(Undefined,
                                          Str(<<Seg("lib", <<>>),
                                                Seg("other", <<"d", "ts">>)>>))>>))>>))
TreePlain ==
    MetadataBody(Files(<<File(Str(<<Seg("index", <<"js">>)>>), Undefined)>>))
TreeNameless ==
    MetadataBody(Files(<<File(Undefined, Undefined)>>))

\* listings by what they hold and in which order
PathFile(path) == File(Undefined, Str(path))
OtherDts == <<Seg("lib", <<>>), Seg("other", <<"d", "ts">>)>>
RootIndexDts == <<Seg("index", <<"d", "ts">>)>>
RootIndexJs == <<Seg("index", <<"js">>)>>
VendoredDts == <<Seg("node_modules", <<>>), Seg("x", <<>>), Seg("index", <<"d", "ts">>)>>
TreeOtherOnly == MetadataBody(Files(<<PathFile(RootIndexJs), PathFile(OtherDts)>>))
TreeOtherFirst == MetadataBody(Files(<<PathFile(OtherDts), PathFile(RootIndexDts)>>))
TreeEntrypointFirst == MetadataBody(Files(<<PathFile(RootIndexDts), PathFile(OtherDts)>>))
TreeVendored == MetadataBody(Files(<<PathFile(RootIndexJs), PathFile(VendoredDts)>>))
TreeVendoredAndOther == MetadataBody(Files(<<PathFile(VendoredDts), PathFile(OtherDts)>>))
TreeNoFiles == MetadataBody(Undefined)

\* listings by names (data.jsdelivr.com): nested directories, an entry with
\* both a path and a name, and entries with neither
NamedFile(name) == File(Str(name), Undefined)
NamedDirectory(name, files) == Directory(Str(name), Undefined, files)
ADts == <<Seg("a", <<"d", "ts">>)>>
BDts == <<Seg("b", <<"d", "ts">>)>>
Lib == <<Seg("lib", <<>>)>>
Deep == <<Seg("deep", <<>>)>>
TreeNested ==
    MetadataBody(Files(<<NamedFile(RootIndexJs),
                         NamedDirectory(Lib,
                             Files(<<NamedFile(ADts),
                                     NamedDirectory(Deep, Files(<<NamedFile(BDts)>>)),
                                     NamedDirectory(Deep, Undefined),
                                     NamedDirectory(Deep, Files(<<>>))>>)),
                         NamedFile(ADts)>>))
TreePathAndName ==
    MetadataBody(Files(<<File(Str(ADts), Str(OtherDts)),
                         Directory(Str(Deep), Str(Lib), Files(<<NamedFile(BDts)>>))>>))
TreeNamelessLast ==
    MetadataBody(Files(<<NamedFile(RootIndexDts), File(Undefined, Undefined)>>))
TreeNamelessDeep ==
    MetadataBody(Files(<<NamedFile(RootIndexDts),
                         NamedDirectory(Lib, Files(<<File(Undefined, Undefined)>>))>>))
TreeNamelessDirectory ==
    MetadataBody(Files(<<Directory(Undefined, Undefined, Files(<<NamedFile(ADts)>>)),
                         NamedFile(RootIndexDts)>>))

\* answers of data.jsdelivr.com and of unpkg.com to the file-listing request
JsdelivrAnswers(sc) ==
    IF sc = "files"
    THEN {Thrown, Response(FALSE, "500", MalformedBody),
          Response(TRUE, "200", MalformedBody)}
         \cup {Response(TRUE, "200", t) :
                 t \in {TreeOtherOnly, TreeOtherFirst, TreeEntrypointFirst, TreeVendored,
                        TreeVendoredAndOther, TreeNoFiles, TreePlain, TreeNested,
                        TreeNamelessLast}}
    ELSE IF sc = "scenarios"
    THEN {Response(TRUE, "200", TreePlain), Response(TRUE, "200", TreeEntrypoint)}
    ELSE IF sc = "cache"
    THEN {Thrown, Response(FALSE, "500", MalformedBody),
          Response(TRUE, "200", MalformedBody), Response(TRUE, "200", TreeEntrypoint),
          Response(TRUE, "200", TreePlain), Response(TRUE, "200", TreeNameless)}
    ELSE {Thrown, Response(FALSE, "500", MalformedBody),
          Response(TRUE, "200", TreeEntrypoint)}
UnpkgAnswers(sc) ==
    IF sc = "files"
    THEN {Thrown, Response(FALSE, "404", MalformedBody),
          Response(TRUE, "200", MalformedBody), Response(TRUE, "200", TreeOtherFirst),
          Response(TRUE, "200", TreeVendored)}
    ELSE IF sc = "cache"
    THEN {Thrown, Response(FALSE, "404", MalformedBody),
          Response(TRUE, "200", MalformedBody), Response(TRUE, "200", TreeOther)}
    ELSE {Response(FALSE, "404", MalformedBody), Response(TRUE, "200", TreeOther)}

\* statuses a previous record may carry.  A `found` one was written by an
\* earlier run for the same declared version: its outOfDate is what that run
\* computed from its `current`; the fields the short-circuit does not compare
\* (hasTypes, packageJsonTypeMatches, exportsSimilar) may have been computed
\* from an older manifest or descriptor
PriorStatuses(sc, d) ==
    {Found(v, outOfDateOf(d, SemVer(v)), "other", FALSE, FALSE, dep) :
        v \in {Canonical(1, 1, 0), Canonical(1, 2, 0)}, dep \in BOOLEAN}
    \cup {Kind(k) : k \in {"not-in-registry", "unpublished", "missing-version",
                           "non-npm", "conflict"}}
    \cup {ErrorStatus(<<"request failed">>)}

\* contents of the descriptor's file under --input before the first run
CacheFiles(sc, d) ==
    IF sc = "cache"
    THEN {AbsentFile, CorruptFile, UnreadableFile,
          CachedInfo(dashboardVersion, d, Kind("unknown"))}
         \cup {CachedInfo(dashboardVersion, d, st) : st \in PriorStatuses(sc, d)}
         \cup {CachedInfo(dashboardVersion - 1, d, st) :
                 st \in {x \in PriorStatuses(sc, d) : x.kind = "found"}}
         \cup {[CachedInfo(dashboardVersion, d, st) EXCEPT
                    !.typesVersion = <<d.major, ".", d.minor + 1>>] :
                 st \in {x \in PriorStatuses(sc, d) : x.kind = "found"}}
    ELSE {AbsentFile}

\* what the descriptor's path under --output holds when the command starts: the
\* workflow starts from an empty directory, a run by hand may find an old file
OutputFiles(sc, d) ==
    IF sc \in {"run", "unpkg"}
    THEN {AbsentFile, CachedInfo(dashboardVersion, d, Kind("unpublished"))}
    ELSE {AbsentFile}

(***************************************************************************)
(* Initial state: execute() has listed the descriptors and is about to     *)
(* launch #checkPackageCached for each of them (line 396).                 *)
(***************************************************************************)
Fresh(P, x) == [p \in P |-> x]

\* scope "load": the #checkPackage calls counted by the await they stand at:
\* not started, at a registry lookup, at the jsdelivr or the unpkg request, ended
Load(idle, registry, jsdelivr, unpkg, done) ==
    [idle |-> idle, registry |-> registry, jsdelivr |-> jsdelivr, unpkg |-> unpkg,
     done |-> done]

\* no call is followed outside the scope "calls"
NoCall == [fn |-> "none", done |-> FALSE]

\* the files below --input and --output that the model follows: for every
\* descriptor the record in the shard of the first character of its path and
\* the one in the shard of its first segment
TrackedFiles(ds) ==
    UNION {{outputPathOf(ds[p]), outputPathBySegment(ds[p])} : p \in DOMAIN ds}

InitScope(sc) ==
    /\ scope = sc
    /\ data \in {[p \in PkgsOf(sc) |-> sh[p]] :
                    sh \in {f \in [PkgsOf(sc) -> UNION {DescriptorsOf(sc, i) : i \in PkgsOf(sc)}] :
                               \A i \in PkgsOf(sc) : f[i] \in DescriptorsOf(sc, i)}}
    /\ run = 1
    /\ runState = "running"
    /\ count = 0
    /\ inputCache = [f \in TrackedFiles(data) |-> Unset]
    /\ outputCache \in {[f \in TrackedFiles(data) |->
                            IF f = outputPathOf(data[1]) THEN x ELSE AbsentFile] :
                         x \in OutputFiles(sc, data[1])}
    /\ world = Fresh(PkgsOf(sc), [k \in ReqKinds |-> Unset])
    /\ pc = Fresh(PkgsOf(sc), "start")
    /\ cached = Fresh(PkgsOf(sc), NoStatus)
    /\ fullManifest = Fresh(PkgsOf(sc), NoManifest)
    /\ latestManifest = Fresh(PkgsOf(sc), NoManifest)
    /\ currentVersion = Fresh(PkgsOf(sc), NoVersion)
    /\ status = Fresh(PkgsOf(sc), NoStatus)
    /\ via = Fresh(PkgsOf(sc), "none")
    /\ reqs = Fresh(PkgsOf(sc), {})
    /\ specifiers = Fresh(PkgsOf(sc), NoSpecifiers)
    /\ writes = Fresh(PkgsOf(sc), 0)
    /\ pacoteQueue = PQueue(pacoteConcurrency, 0)
    /\ fetchQueues = NoQueues
    /\ fetchQueue = PQueue(fetchConcurrencyUnpkg, 0)
    /\ load = Load(0, 0, 0, 0, 0)
    /\ call = NoCall

\* scope "load": line 396 is about to launch MaxLoad calls; what each call
\* computes is left out, only its requests are kept
InitLoad ==
    /\ scope = "load"
    /\ data = <<>>
    /\ run = 1
    /\ runState = "running"
    /\ count = 0
    /\ inputCache = <<>>
    /\ outputCache = <<>>
    /\ world = <<>>
    /\ pc = <<>>
    /\ cached = <<>>
    /\ fullManifest = <<>>
    /\ latestManifest = <<>>
    /\ currentVersion = <<>>
    /\ status = <<>>
    /\ via = <<>>
    /\ reqs = <<>>
    /\ specifiers = <<>>
    /\ writes = <<>>
    /\ pacoteQueue = PQueue(pacoteConcurrency, 0)
    /\ fetchQueues = NoQueues
    /\ fetchQueue = PQueue(fetchConcurrencyUnpkg, 0)
    /\ load = Load(MaxLoad, 0, 0, 0, 0)
    /\ call = NoCall

\* scope "calls": one call of candidates-building, of forEachFileInMetadata
\* or of exportsSimilar
\* is about to be made on an argument of the sets below
Call(fn, arg) == [fn |-> fn, arg |-> arg, done |-> FALSE, result |-> Unset]

IndexMjs == <<Dot, Seg("index", <<"mjs">>)>>
IndexCjs == <<Dot, Seg("index", <<"cjs">>)>>
LibSub == <<Dot, Seg("lib", <<>>), Seg("sub", <<>>)>>
UpIndexJs == <<DotDot, Seg("index", <<"js">>)>>
DistMinJs == <<Seg("dist", <<>>), Seg("x", <<"min", "js">>)>>
Entrypoints == {IndexJs, LibMainJs, IndexMjs, IndexCjs, LibSub, UpIndexJs, DistMinJs, IndexDts}

ConditionalExports ==
    Obj(<<".", "./sub">>,
        <<Obj(<<"import", "require">>, <<Str(IndexMjs), Str(IndexCjs)>>), Str(LibSub)>>)

\* manifests by their `exports` and `main`
CallManifests ==
    {ShapedManifest(Undefined, Undefined, Undefined, Str(e)) : e \in Entrypoints}
    \cup {ShapedManifest(Undefined, Undefined, Str(e), Str(IndexJs)) : e \in Entrypoints}
    \cup {ShapedManifest(Undefined, Undefined, ex, mn) :
            ex \in {ConditionalExports, Obj(<<".", "./internal">>, <<Str(IndexJs), Null>>),
                    Obj(<<>>, <<>>), Null, Undefined},
            mn \in {Str(LibMainJs), Undefined, Obj(<<>>, <<>>)}}

\* values of `exports` in a DefinitelyTyped package.json and in a manifest
CallExports ==
    {Undefined, Null, Str(IndexJs), Str(IndexMjs), Arr(<<>>), Arr(<<Str(IndexJs)>>),
     Obj(<<>>, <<>>), ConditionalExports,
     Obj(<<".">>, <<Str(IndexJs)>>), Obj(<<".">>, <<Str(IndexMjs)>>),
     Obj(<<".", "./internal">>, <<Str(IndexJs), Null>>),
     Obj(<<"./internal", ".">>, <<Str(IndexMjs), Str(IndexJs)>>),
     Obj(<<".", "./sub">>, <<Str(IndexJs), Str(LibSub)>>)}

CallTrees ==
    {TreeEntrypoint, TreeOther, TreePlain, TreeNameless, TreeOtherOnly, TreeVendored,
     TreeNoFiles, TreeNested, TreePathAndName, TreeNamelessLast, TreeNamelessDeep,
     TreeNamelessDirectory}

InitCalls ==
    /\ scope = "calls"
    /\ data = <<>>
    /\ run = 1
    /\ runState = "running"
    /\ count = 0
    /\ inputCache = <<>>
    /\ outputCache = <<>>
    /\ world = <<>>
    /\ pc = <<>>
    /\ cached = <<>>
    /\ fullManifest = <<>>
    /\ latestManifest = <<>>
    /\ currentVersion = <<>>
    /\ status = <<>>
    /\ via = <<>>
    /\ reqs = <<>>
    /\ specifiers = <<>>
    /\ writes = <<>>
    /\ pacoteQueue = PQueue(pacoteConcurrency, 0)
    /\ fetchQueues = NoQueues
    /\ fetchQueue = PQueue(fetchConcurrencyUnpkg, 0)
    /\ load = Load(0, 0, 0, 0, 0)
    /\ call \in {Call("candidates", m) : m \in CallManifests}
               \cup {Call("forEachFileInMetadata", t) : t \in CallTrees}
               \cup {Call("exportsSimilar", <<a, b>>) : a, b \in CallExports}

Init ==
    \/ \E sc \in {"cache", "versions", "scenarios", "files", "run", "unpkg"} : InitScope(sc)
    \/ InitLoad
    \/ InitCalls

(***************************************************************************)
(* Actions of #checkPackageCached / #checkPackage (final variant).         *)
(***************************************************************************)
\* the locals of package p as the code between two awaits finds them
locals(p) == Locals(fullManifest[p], latestManifest[p], currentVersion[p])

\* package p runs up to its next await, ending as outcome o says; o and what
\* #checkPackageCached makes of it are computed once per step.  The task of
\* the request just answered leaves its queue, a request now awaited enters
\* its own.  With at most NPkgs + 1 requests at a time no task ever waits here;
\* the scope "load" is where the limits are met.
Step(p, outcome) ==
    \E o \in {outcome} : \E b \in {boundary(o)} :
    \E qs \in {IF o.do = "await" THEN issued(settled(Queues, pc[p]), o.req)
                ELSE settled(Queues, pc[p])} :
    /\ pacoteQueue' = qs.pacoteQueue
    /\ fetchQueues' = qs.fetchQueues
    /\ fetchQueue' = qs.fetchQueue
    /\ pc' = [pc EXCEPT ![p] = b.pc]
    /\ status' = [status EXCEPT ![p] = b.status]
    /\ via' = [via EXCEPT ![p] = b.via]
    /\ fullManifest' = [fullManifest EXCEPT ![p] = o.loc.fullManifest]
    /\ latestManifest' = [latestManifest EXCEPT ![p] = o.loc.latestManifest]
    /\ currentVersion' = [currentVersion EXCEPT ![p] = o.loc.currentVersion]
    /\ reqs' = [reqs EXCEPT ![p] = IF o.do = "await" /\ o.req \in ReqKinds
                                   THEN @ \cup {o.req} ELSE @]
    /\ specifiers' = [specifiers EXCEPT ![p] =
                          IF o.do = "await" /\ o.req \in ManifestReqs
                          THEN [@ EXCEPT ![o.req] = o.specifier] ELSE @]
    \* a FatalError rejects the Promise.all of line 396, and with it execute()
    /\ runState' = IF b.pc = "fatal" THEN "failed" ELSE runState

\* the answer r to request k of package p is the registry's answer from now on
Answered(p, k, r) == world' = [world EXCEPT ![p][k] = r]

\* line 461: await fs.promises.mkdir(outputDir)
Mkdir(p) ==
    /\ pc[p] = "start"
    /\ pc' = [pc EXCEPT ![p] = "read"]
    /\ UNCHANGED <<scope, data, run, runState, count, inputCache, outputCache, world,
                   cached, fullManifest, latestManifest, currentVersion, status, via,
                   reqs, specifiers, writes, queueVars, load, call>>

\* lines 462-517: the previous record is read, #checkPackage starts.  In the
\* unpkg variant (lines 887-938) it starts by reading index.d.ts
ReadCache(p) ==
    /\ pc[p] = "read"
    /\ LET path == outputPathOf(data[p]) IN
       \E contents \in (IF inputCache[path] = Unset THEN CacheFiles(scope, data[p])
                        ELSE {inputCache[path]}) :
          /\ inputCache' = [inputCache EXCEPT ![path] = contents]
          /\ cached' = [cached EXCEPT ![p] = cachedStatusFor(data[p], contents)]
          /\ Step(p, IF scope = "unpkg"
                      THEN Await("header", Locals(NoManifest, NoManifest, NoVersion))
                      ELSE checkPackageStart(data[p], cachedStatusFor(data[p], contents)))
    /\ UNCHANGED <<scope, data, run, count, outputCache, world, writes, load, call>>

\* line 517 resumes
ManifestAnswered(p) ==
    /\ pc[p] = "manifest"
    /\ \E r \in Respond(p, "manifest", ManifestAnswers(scope, specifierOrLatestOf(data[p]))) :
          /\ Answered(p, "manifest", r)
          /\ Step(p, onManifest(data[p], cached[p], r))
    /\ UNCHANGED <<scope, data, run, count, inputCache, outputCache, cached, writes, load, call>>

\* line 519 resumes
LatestAnswered(p) ==
    /\ pc[p] = "latest"
    /\ \E r \in Respond(p, "latest", LatestAnswers(scope)) :
          /\ Answered(p, "latest", r)
          /\ Step(p, onLatest(data[p], cached[p], locals(p), r))
    /\ UNCHANGED <<scope, data, run, count, inputCache, outputCache, cached, writes, load, call>>

\* line 555 resumes
PackumentAnswered(p) ==
    /\ pc[p] = "packument"
    /\ \E r \in Respond(p, "packument", PackumentAnswers(scope)) :
          /\ Answered(p, "packument", r)
          /\ Step(p, onPackument(data[p], cached[p], locals(p), r))
    /\ UNCHANGED <<scope, data, run, count, inputCache, outputCache, cached, writes, load, call>>

\* the version asked for at line 563: versions[0] of the packument's answer
requestedExact(p) ==
    pickFromPackument(world[p]["packument"].versions, specifierOf(data[p])).latest

\* line 563 resumes
ExactAnswered(p) ==
    /\ pc[p] = "exact"
    /\ \E r \in Respond(p, "exact", ExactAnswers(scope, requestedExact(p))) :
          /\ Answered(p, "exact", r)
          /\ Step(p, onExact(data[p], cached[p], locals(p), r))
    /\ UNCHANGED <<scope, data, run, count, inputCache, outputCache, cached, writes, load, call>>

\* line 700 resumes
JsdelivrAnswered(p) ==
    /\ pc[p] = "jsdelivr"
    /\ \E r \in Respond(p, "jsdelivr", JsdelivrAnswers(scope)) :
          /\ Answered(p, "jsdelivr", r)
          /\ Step(p, onJsdelivr(data[p], locals(p), r))
    /\ UNCHANGED <<scope, data, run, count, inputCache, outputCache, cached, writes, load, call>>

\* line 714 resumes
UnpkgAnswered(p) ==
    /\ pc[p] = "unpkg"
    /\ \E r \in Respond(p, "unpkg", UnpkgAnswers(scope)) :
          /\ Answered(p, "unpkg", r)
          /\ Step(p, onUnpkg(data[p], locals(p), r))
    /\ UNCHANGED <<scope, data, run, count, inputCache, outputCache, cached, writes, load, call>>

\* line 489 (dashboardVersion) and, in the unpkg variant, line 920
writtenVersion == IF scope = "unpkg" THEN dashboardVersionUnpkg ELSE dashboardVersion

\* WriteRecord that keeps the file as it is when the status is an error
WriteRecordUnlessError(p) ==
    /\ pc[p] = "write"
    /\ outputCache' = IF status[p].kind = "error" THEN outputCache
                      ELSE [outputCache EXCEPT ![outputPathOf(data[p])] =
                               CachedInfo(writtenVersion, data[p], status[p])]
    /\ writes' = [writes EXCEPT ![p] = IF status[p].kind = "error" THEN @ ELSE @ + 1]
    /\ count' = count + 1
    /\ pc' = [pc EXCEPT ![p] = "done"]
    /\ runState' = IF runState = "running" /\ \A q \in Pkgs \ {p} : pc[q] = "done"
                   THEN "completed" ELSE runState
    /\ UNCHANGED <<scope, data, run, inputCache, world, cached, fullManifest,
                   latestManifest, currentVersion, status, via, reqs, specifiers,
                   queueVars, load, call>>

\* WriteRecord without the call of #updateSpinner that follows the write
WriteRecordUncounted(p) ==
    /\ pc[p] = "write"
    /\ outputCache' = [outputCache EXCEPT ![outputPathOf(data[p])] =
                           CachedInfo(writtenVersion, data[p], status[p])]
    /\ writes' = [writes EXCEPT ![p] = @ + 1]
    /\ count' = count
    /\ pc' = [pc EXCEPT ![p] = "done"]
    /\ runState' = IF runState = "running" /\ \A q \in Pkgs \ {p} : pc[q] = "done"
                   THEN "completed" ELSE runState
    /\ UNCHANGED <<scope, data, run, inputCache, world, cached, fullManifest,
                   latestManifest, currentVersion, status, via, reqs, specifiers,
                   queueVars, load, call>>

\* lines 488-499: the record is written, the counter advances; when it was the
\* last package the Promise.all of line 396 resolves
WriteRecord(p) ==
    /\ pc[p] = "write"
    /\ outputCache' = [outputCache EXCEPT ![outputPathOf(data[p])] =
                           CachedInfo(writtenVersion, data[p], status[p])]
    /\ writes' = [writes EXCEPT ![p] = @ + 1]
    /\ count' = count + 1
    /\ pc' = [pc EXCEPT ![p] = "done"]
    /\ runState' = IF runState = "running" /\ \A q \in Pkgs \ {p} : pc[q] = "done"
                   THEN "completed" ELSE runState
    /\ UNCHANGED <<scope, data, run, inputCache, world, cached, fullManifest,
                   latestManifest, currentVersion, status, via, reqs, specifiers,
                   queueVars, load, call>>

\* the descriptor d as a later checkout of DefinitelyTyped may hold it: the
\* same directory and declared version, with the `type` or the `exports` of
\* its package.json edited (lines 451-452 read them anew in every run)
Edited(d) ==
    {d, [d EXCEPT !.packageJsonType = "module"],
     [d EXCEPT !.exports = Obj(<<".">>, <<Str(IndexJs)>>)]}

\* check.yml, lines 46-48: the next run reads what this one wrote
\* (mv ./cache ./cacheIn; check --input ./cacheIn --output ./cache), over a
\* new checkout of DefinitelyTyped
NextRun ==
    /\ runState = "completed"
    /\ run < RunsOf(scope)
    /\ run' = run + 1
    /\ data' \in IF scope = "cache"
                 THEN {f \in [Pkgs -> UNION {Edited(data[p]) : p \in Pkgs}] :
                          \A p \in Pkgs : f[p] \in Edited(data[p])}
                 ELSE {data}
    /\ runState' = "running"
    /\ count' = 0
    /\ inputCache' = outputCache
    /\ outputCache' = [f \in DOMAIN outputCache |-> AbsentFile]
    /\ pc' = Fresh(Pkgs, "start")
    /\ cached' = Fresh(Pkgs, NoStatus)
    /\ fullManifest' = Fresh(Pkgs, NoManifest)
    /\ latestManifest' = Fresh(Pkgs, NoManifest)
    /\ currentVersion' = Fresh(Pkgs, NoVersion)
    /\ status' = Fresh(Pkgs, NoStatus)
    /\ via' = Fresh(Pkgs, "none")
    /\ reqs' = Fresh(Pkgs, {})
    /\ specifiers' = Fresh(Pkgs, NoSpecifiers)
    /\ writes' = Fresh(Pkgs, 0)
    \* a new process: the queues are those of a new CheckCommand
    /\ pacoteQueue' = PQueue(pacoteConcurrency, 0)
    /\ fetchQueues' = NoQueues
    /\ fetchQueue' = PQueue(fetchConcurrencyUnpkg, 0)
    /\ UNCHANGED <<scope, world, load, call>>

(***************************************************************************)
(* The unpkg variant of #checkPackage (part_006, lines 933-1014): it reads *)
(* the header of index.d.ts, fetches package.json from unpkg.com and       *)
(* raises FatalError on HTTP 524.                                          *)
(***************************************************************************)
\* lines 1007-1013: the `found` status of this variant
FoundUnpkg(current, outOfDate, minorOutOfDate, hasTypes) ==
    [kind |-> "found", current |-> current, outOfDate |-> outOfDate,
     minorOutOfDate |-> minorOutOfDate, hasTypes |-> hasTypes]

\* lines 936-944: the header of index.d.ts has been read
unpkgHeaderRead(d, c) ==
    IF d.nonNpm \in {"true", "conflict"}
    THEN Return(Kind("non-npm"), "nonNpm", Locals(NoManifest, NoManifest, NoVersion))
    ELSE Await("unpkgManifest", Locals(NoManifest, NoManifest, NoVersion))

\* lines 953-1011: the answer of unpkg.com to the package.json request
onUnpkgManifest(d, c, r) ==
    LET none == Locals(NoManifest, NoManifest, NoVersion) IN
    IF r.t = "throw" THEN Throw("FetchError", <<"request failed">>, none)
    ELSE IF ~r.ok
    THEN (IF r.status = "404" THEN Return(Kind("not-in-registry"), "manifestFailure", none)
          ELSE IF r.status = "524"
          THEN Throw("FatalError", <<"timeout fetching">>, none)
          ELSE Return(ErrorStatus(<<d.unescapedName, "failed to fetch package.json:",
                                    r.status>>), "manifestFailure", none))
    ELSE IF r.body.t # "manifest"
    THEN Return(ErrorStatus(<<"failed to parse package.json">>), "manifestFailure", none)
    ELSE LET packageJSON == r.body.manifest
             loc == Locals(packageJSON, NoManifest, NoVersion)
             version == SemVer(packageJSON.version)
             typed == packageJSONIsTyped(packageJSON)
         IN  IF c.kind = "found" /\ packageJSON.version = c.current
             THEN Return(c, "cache", loc)
             ELSE IF d.isLatest /\ ~LooseValid(packageJSON.version)
             THEN Throw("TypeError", <<"Invalid Version">>, loc)
             ELSE IF typed = "throws"
             THEN Throw("TypeError", <<"Cannot read properties of null">>, loc)
             ELSE Return(FoundUnpkg(packageJSON.version,
                                    d.isLatest /\ (\/ version.major > d.major
                                                   \/ /\ version.major <= d.major
                                                      /\ version.minor > d.minor
                                                      /\ d.major = 0),
                                    d.isLatest /\ version.major <= d.major
                                        /\ version.minor > d.minor /\ d.major # 0,
                                    typed = "typed"),
                         "fresh", loc)

UnpkgManifestAnswers ==
    {Response(TRUE, "200", ManifestAnswer(TypedManifest(Canonical(1, 1, 0), NotDeprecated))),
     Response(TRUE, "200", ManifestAnswer(UntypedManifest(Canonical(1, 2, 0), NotDeprecated))),
     Response(TRUE, "200", MalformedBody),
     Response(FALSE, "404", MalformedBody), Response(FALSE, "524", MalformedBody),
     Response(FALSE, "500", MalformedBody), Thrown}

\* line 938 resumes
UnpkgHeaderRead(p) ==
    /\ pc[p] = "header"
    /\ Step(p, unpkgHeaderRead(data[p], cached[p]))
    /\ UNCHANGED <<scope, data, run, count, inputCache, outputCache, world, cached, writes,
                   load, call>>

\* line 950 resumes
UnpkgManifestAnswered(p) ==
    /\ pc[p] = "unpkgManifest"
    /\ \E r \in Respond(p, "unpkgManifest", UnpkgManifestAnswers) :
          /\ Answered(p, "unpkgManifest", r)
          /\ Step(p, onUnpkgManifest(data[p], cached[p], r))
    /\ UNCHANGED <<scope, data, run, count, inputCache, outputCache, cached, writes, load, call>>

(***************************************************************************)
(* Scope "load": the requests of MaxLoad concurrent #checkPackage calls.   *)
(***************************************************************************)
loadStays == UNCHANGED <<scope, data, run, runState, count, inputCache, outputCache, world, pc, cached, fullManifest, latestManifest, currentVersion, status, via, reqs, specifiers, writes, fetchQueue, call>>

\* line 517: a call hands its first manifest lookup to #pacoteQueue
LoadGetManifest ==
    /\ scope = "load" /\ load.idle > 0
    /\ load' = [load EXCEPT !.idle = @ - 1, !.registry = @ + 1]
    /\ pacoteQueue' = add(pacoteQueue)
    /\ UNCHANGED fetchQueues
    /\ loadStays

\* lines 519, 555, 563: a lookup settles and its call asks the registry again
LoadLookupAgain ==
    /\ scope = "load" /\ pacoteQueue.pending > 0
    /\ pacoteQueue' = add(settle(pacoteQueue))
    /\ UNCHANGED <<load, fetchQueues>>
    /\ loadStays

\* lines 520-610: a lookup settles and its call returns without a file listing
LoadLookupEnds ==
    /\ scope = "load" /\ pacoteQueue.pending > 0
    /\ pacoteQueue' = settle(pacoteQueue)
    /\ load' = [load EXCEPT !.registry = @ - 1, !.done = @ + 1]
    /\ UNCHANGED fetchQueues
    /\ loadStays

\* lines 611 and 700: a lookup settles and its call asks data.jsdelivr.com
LoadFetchJsdelivr ==
    /\ scope = "load" /\ pacoteQueue.pending > 0
    /\ pacoteQueue' = settle(pacoteQueue)
    /\ fetchQueues' = fetch(fetchQueues, Jsdelivr)
    /\ load' = [load EXCEPT !.registry = @ - 1, !.jsdelivr = @ + 1]
    /\ loadStays

\* lines 700-722: the jsdelivr request settles; the call goes on to unpkg.com
\* or has its listing (or its exception)
LoadJsdelivrSettles ==
    /\ scope = "load"
    /\ Jsdelivr \in DOMAIN fetchQueues /\ fetchQueues[Jsdelivr].pending > 0
    /\ \E fallback \in BOOLEAN :
          LET left == [fetchQueues EXCEPT ![Jsdelivr] = settle(@)] IN
          /\ fetchQueues' = IF fallback THEN fetch(left, Unpkg) ELSE left
          /\ load' = IF fallback
                     THEN [load EXCEPT !.jsdelivr = @ - 1, !.unpkg = @ + 1]
                     ELSE [load EXCEPT !.jsdelivr = @ - 1, !.done = @ + 1]
    /\ UNCHANGED pacoteQueue
    /\ loadStays

\* lines 714-721: the unpkg request settles
LoadUnpkgSettles ==
    /\ scope = "load"
    /\ Unpkg \in DOMAIN fetchQueues /\ fetchQueues[Unpkg].pending > 0
    /\ fetchQueues' = [fetchQueues EXCEPT ![Unpkg] = settle(@)]
    /\ load' = [load EXCEPT !.unpkg = @ - 1, !.done = @ + 1]
    /\ UNCHANGED pacoteQueue
    /\ loadStays

(***************************************************************************)
(* Scope "calls": candidates, forEachFileInMetadata and exportsSimilar.    *)
(***************************************************************************)
callStays == UNCHANGED <<scope, data, run, runState, count, inputCache, outputCache, world, pc, cached, fullManifest, latestManifest, currentVersion, status, via, reqs, specifiers, writes, queueVars, load>>

\* lines 618-642: the candidate set of the manifest
CallCandidates ==
    /\ scope = "calls" /\ call.fn = "candidates" /\ ~call.done
    /\ call' = [call EXCEPT !.done = TRUE, !.result = candidates(call.arg)]
    /\ callStays

\* common.ts, lines 89-109: the file names handed to the callback, in order,
\* and whether the walk ended by throwing
CallForEachFile ==
    /\ scope = "calls" /\ call.fn = "forEachFileInMetadata" /\ ~call.done
    /\ call' = [call EXCEPT !.done = TRUE, !.result = forEachFileInMetadata(call.arg)]
    /\ callStays

\* lines 675 and 787-804: exportsSimilar(a, b), and beside it the same
\* comparison with the arguments exchanged and of a with itself
CallExportsSimilar ==
    /\ scope = "calls" /\ call.fn = "exportsSimilar" /\ ~call.done
    /\ call' = [call EXCEPT !.done = TRUE,
                            !.result = [ab |-> exportsSimilar(call.arg[1], call.arg[2]),
                                        ba |-> exportsSimilar(call.arg[2], call.arg[1]),
                                        aa |-> exportsSimilar(call.arg[1], call.arg[1])]]
    /\ callStays

Next ==
    \/ \E p \in Pkgs : Mkdir(p)
    \/ \E p \in Pkgs : ReadCache(p)
    \/ \E p \in Pkgs : ManifestAnswered(p)
    \/ \E p \in Pkgs : LatestAnswered(p)
    \/ \E p \in Pkgs : PackumentAnswered(p)
    \/ \E p \in Pkgs : ExactAnswered(p)
    \/ \E p \in Pkgs : JsdelivrAnswered(p)
    \/ \E p \in Pkgs : UnpkgAnswered(p)
    \/ \E p \in Pkgs : UnpkgHeaderRead(p)
    \/ \E p \in Pkgs : UnpkgManifestAnswered(p)
    \/ \E p \in Pkgs : WriteRecord(p)
    \/ NextRun
    \/ LoadGetManifest
    \/ LoadLookupAgain
    \/ LoadLookupEnds
    \/ LoadFetchJsdelivr
    \/ LoadJsdelivrSettles
    \/ LoadUnpkgSettles
    \/ CallCandidates
    \/ CallForEachFile
    \/ CallExportsSimilar

Spec == Init /\ [][Next]_vars

\* every request settles (p-queue times out after 60 s, make-fetch-happen
\* retries 5 times) and Node runs the continuation of every settled promise
FairSpec == Spec /\ WF_vars(Next)

(***************************************************************************)
(* Properties.                                                             *)
(***************************************************************************)
\* the descriptor is processed by the final variant of #checkPackage
Final == scope # "unpkg"
\* #checkPackage of p has ended with a status
Decided(p) == pc[p] \in {"write", "done"}
\* the file of p under --input, as read in this run
priorFile(p) == inputCache[outputPathOf(data[p])]
\* the file of p under --output
writtenFile(p) == outputCache[outputPathOf(data[p])]
\* request k of p has been answered in this run
answered(p, k) == k \in reqs[p] /\ pc[p] # k

\* C1: a second run over an unchanged registry, fed the records of the first,
\* returns every `found` record through the cache short-circuit: it issues no
\* file-listing request and writes the same record again, whatever spelling
\* of the upstream version loose parsing accepted.
C1_SecondRunShortCircuits ==
    \A p \in Pkgs :
        (/\ Final /\ run >= 2 /\ pc[p] = "done"
         /\ priorFile(p).t = "record" /\ priorFile(p).status.kind = "found"
         /\ fullManifest[p] # NoManifest /\ LooseValid(fullManifest[p].version))
        => /\ via[p] = "cache"
           /\ reqs[p] \cap FileListingReqs = {}
           /\ writtenFile(p) = priorFile(p)

\* C2: a prior record whose dashboardVersion is not the current literal, or
\* whose typesVersion is not the descriptor's declared major.minor, hands no
\* prior status to #checkPackage: the descriptor is processed as if the file
\* did not exist, and the short-circuit cannot trigger.
C2_StaleRecordIgnored ==
    \A p \in Pkgs :
        (/\ Final /\ pc[p] \notin {"start", "read"} /\ priorFile(p).t = "record"
         /\ \/ priorFile(p).dashboardVersion # dashboardVersion
            \/ priorFile(p).typesVersion # <<data[p].major, ".", data[p].minor>>)
        => cached[p] = NoStatus /\ via[p] # "cache"

C2_Witness ==
    \E p \in Pkgs :
        /\ Final /\ pc[p] = "done" /\ via[p] = "fresh"
        /\ priorFile(p).t = "record" /\ priorFile(p).status.kind = "found"
        /\ \/ priorFile(p).dashboardVersion # dashboardVersion
           \/ priorFile(p).typesVersion # <<data[p].major, ".", data[p].minor>>
        /\ priorFile(p).status.current = fullManifest[p].version
        /\ priorFile(p).status.isDeprecated = status[p].isDeprecated

\* C3: #checkPackage returns the prior status unchanged, without a file-listing
\* request, exactly when the manifests resolved, the prior status is `found`,
\* its `current` is the resolved manifest's version string and its
\* isDeprecated is the newly computed flag; no other prior status is returned.
C3_ShortCircuitCondition ==
    \A p \in Pkgs :
        (Final /\ Decided(p)) =>
            LET hit == /\ fullManifest[p] # NoManifest
                       /\ latestManifest[p] # NoManifest
                       /\ currentVersion[p] # NoVersion
                       /\ cached[p].kind = "found"
                       /\ cached[p].current = fullManifest[p].version
                       /\ cached[p].isDeprecated =
                              (\/ Truthy(fullManifest[p].deprecated)
                               \/ Truthy(latestManifest[p].deprecated))
            IN  /\ via[p] = "cache" <=> hit
                /\ via[p] = "cache" =>
                       status[p] = cached[p] /\ reqs[p] \cap FileListingReqs = {}

C3_Witness ==
    \E p \in Pkgs :
        /\ Final /\ pc[p] = "done" /\ via[p] = "cache" /\ run = 1
        /\ status[p] = priorFile(p).status /\ status[p].hasTypes = "other"
        /\ packageJSONIsTyped(fullManifest[p]) = "typed"

\* C4: a descriptor whose processing ends without FatalError has written
\* exactly one record, after its status was computed, over whatever the path
\* held, error statuses included; a descriptor that raised FatalError has
\* written none; only the write of a record changes a file under --output.
C4_State ==
    \A p \in Pkgs :
        /\ pc[p] = "done" =>
              /\ writes[p] = 1 /\ status[p] # NoStatus
              /\ writtenFile(p).t = "record" /\ writtenFile(p).status = status[p]
        /\ pc[p] # "done" => writes[p] = 0
        /\ pc[p] = "write" => status[p] # NoStatus
        /\ pc[p] = "fatal" => via[p] = "fatal" /\ status[p] = NoStatus

C4_Step ==
    \A p \in Pkgs :
        (run' = run /\ writtenFile(p)' # writtenFile(p))
            => pc[p] = "write" /\ pc'[p] = "done" /\ status'[p] = status[p]

C4_OneRecordPerPackage == []C4_State /\ [][C4_Step]_vars

C4_Witness ==
    \E p, q \in Pkgs :
        /\ pc[p] = "fatal" /\ writes[p] = 0
        /\ pc[q] = "done" /\ via[q] = "caught" /\ writes[q] = 1
        /\ writtenFile(q).status.kind = "error"
        /\ q = 1 /\ count = 1

\* C5: an exception other than FatalError raised while one descriptor is
\* reconciled (failed request, unparsable answer, malformed version, file
\* tree without names) becomes that descriptor's `error` status with a
\* message; it changes nothing for the other descriptors and does not fail
\* the run, and every descriptor of the run still ends with its record.
C5_State ==
    \A p \in Pkgs :
        /\ via[p] = "caught" =>
              Decided(p) /\ status[p].kind = "error" /\ Len(status[p].message) > 0
        /\ \A k \in FileListingReqs :
              (answered(p, k) /\ world[p][k] = Thrown) => via[p] = "caught"
        /\ (answered(p, "unpkg") /\ world[p]["unpkg"] = Response(TRUE, "200", MalformedBody))
              => via[p] = "caught"
        /\ (Final /\ Decided(p) /\ latestManifest[p] # NoManifest
                /\ ~LooseValid(fullManifest[p].version) /\ currentVersion[p] = NoVersion)
              => via[p] = "caught"
        /\ Final => runState # "failed"

C5_Step ==
    \A p \in Pkgs :
        (via[p] # "caught" /\ via'[p] = "caught")
            => /\ runState' = runState
               /\ \A q \in Pkgs \ {p} :
                     /\ pc'[q] = pc[q] /\ status'[q] = status[q]
                     /\ writes'[q] = writes[q] /\ writtenFile(q)' = writtenFile(q)

C5_ErrorIsolation ==
    /\ []C5_State
    /\ [][C5_Step]_vars
    /\ (\E p \in Pkgs : Final /\ via[p] = "caught")
          ~> (\A q \in Pkgs : pc[q] = "done" /\ writes[q] = 1)

C5_Witness ==
    \E p, q \in Pkgs :
        /\ Final /\ p # q /\ via[p] = "caught" /\ pc[p] = "done"
        /\ world[p]["jsdelivr"] = Thrown
        /\ pc[q] = "done" /\ via[q] = "fresh" /\ writtenFile(q).status.kind = "found"
        /\ runState = "completed"

\* C6: when a descriptor raises FatalError the run fails, the records written
\* before stay on disk, and from then on no other descriptor issues a request
\* or writes a record.
C6_State == \A p \in Pkgs : pc[p] = "fatal" => runState = "failed"

C6_Step ==
    runState = "failed" =>
        /\ reqs' = reqs /\ writes' = writes
        /\ \A p \in Pkgs : writtenFile(p)' = writtenFile(p)

C6_FatalAbandonsOthers == []C6_State /\ [][C6_Step]_vars

\* C7: an HTTP 524 from the registry in answer to the primary manifest request
\* raises FatalError: the descriptor gets no status and the run fails.
C7_TimeoutIsFatal ==
    \A p \in Pkgs :
        (\/ answered(p, "manifest") /\ world[p]["manifest"] = ErrorAnswer("E524", Undefined)
         \/ answered(p, "unpkgManifest")
                /\ world[p]["unpkgManifest"] = Response(FALSE, "524", MalformedBody))
        => pc[p] = "fatal" /\ status[p] = NoStatus /\ runState = "failed"

\* the answer that made the manifest resolution of lines 516-519 fail
failedResolution(p) ==
    IF answered(p, "manifest") /\ world[p]["manifest"].t # "manifest"
    THEN world[p]["manifest"]
    ELSE IF answered(p, "latest") /\ world[p]["latest"].t # "manifest"
    THEN world[p]["latest"]
    ELSE Unset

\* C8: when the manifest resolution fails, the status is not-in-registry for
\* E404, unpublished for ETARGET without a non-empty `versions` array,
\* missing-version for ETARGET with one, and `error` with a message for every
\* other failure; no file-listing request is issued; and these three kinds
\* arise in no other way.
C8_RegistryAbsence ==
    \A p \in Pkgs :
        (Final /\ Decided(p)) =>
            LET e == failedResolution(p)
                code == IF e.t = "error" THEN e.code ELSE "undefined"
                listed == e.t = "error" /\ e.versions.t = "array"
                              /\ Len(e.versions.items) > 0
            IN  /\ e # Unset =>
                      /\ code = "E404" => status[p] = [kind |-> "not-in-registry"]
                      /\ (code = "ETARGET" /\ ~listed) => status[p] = [kind |-> "unpublished"]
                      /\ (code = "ETARGET" /\ listed) => status[p] = [kind |-> "missing-version"]
                      /\ code \notin {"E404", "ETARGET"} =>
                             status[p].kind = "error" /\ Len(status[p].message) > 0
                      /\ reqs[p] \subseteq {"manifest", "latest"}
                /\ status[p].kind \in {"not-in-registry", "unpublished", "missing-version"}
                      => e # Unset

C8_Witness ==
    \E p \in Pkgs :
        /\ Final /\ pc[p] = "done" /\ status[p] = [kind |-> "unpublished"]
        /\ world[p]["manifest"] = ErrorAnswer("ETARGET", Arr(<<>>))
        /\ writtenFile(p).status = [kind |-> "unpublished"]

\* C9: a descriptor marked nonNpm gets its status before any registry request:
\* `conflict` for the marker "conflict", `non-npm` for true, whatever the prior
\* record holds.
C9_MarkerBeforeRegistry ==
    \A p \in Pkgs :
        (Final /\ data[p].nonNpm \in {"true", "conflict"}) =>
            /\ reqs[p] = {}
            /\ pc[p] \in {"start", "read", "write", "done"}
            /\ Decided(p) =>
                  status[p] = [kind |-> IF data[p].nonNpm = "conflict"
                                        THEN "conflict" ELSE "non-npm"]

C9_Witness ==
    \E p \in Pkgs :
        /\ Final /\ pc[p] = "done" /\ data[p].nonNpm = "conflict"
        /\ status[p] = [kind |-> "conflict"] /\ reqs[p] = {}
        /\ cached[p].kind = "found"

\* C10, as stated: for every descriptor with declared major >= 1 whose
\* upstream version resolves, a greater upstream major gives outOfDate
\* `major` and an equal major with a greater minor gives `minor`.
C10_EveryDescriptor ==
    \A p \in Pkgs :
        (/\ Final /\ Decided(p) /\ status[p].kind = "found" /\ data[p].major >= 1)
        => /\ currentVersion[p].major > data[p].major => status[p].outOfDate = "major"
           /\ (/\ currentVersion[p].major = data[p].major
               /\ currentVersion[p].minor > data[p].minor)
                  => status[p].outOfDate = "minor"

\* C10: for every latest descriptor with declared major >= 1 whose upstream
\* version resolves, a greater upstream major gives outOfDate `major` and an
\* equal major with a greater minor gives `minor`.
C10_LatestDescriptor ==
    \A p \in Pkgs :
        (/\ Final /\ Decided(p) /\ status[p].kind = "found" /\ data[p].major >= 1
         /\ data[p].isLatest)
        => /\ currentVersion[p].major > data[p].major => status[p].outOfDate = "major"
           /\ (/\ currentVersion[p].major = data[p].major
               /\ currentVersion[p].minor > data[p].minor)
                  => status[p].outOfDate = "minor"

C10_Witness ==
    \E p \in Pkgs :
        /\ Final /\ pc[p] = "done" /\ data[p].isLatest
        /\ data[p].major = 2 /\ data[p].minor = 1
        /\ fullManifest[p].version = Canonical(2, 5, 0)
        /\ status[p].kind = "found" /\ status[p].outOfDate = "minor"

\* (major, minor) of version v is below / at or above the declared one
below(v, d) == v.major < d.major \/ (v.major = d.major /\ v.minor < d.minor)
\* the manifest first resolved for p, once that request is answered
firstManifest(p) == world[p]["manifest"].manifest
\* `latest` was asked for and resolved behind the declared version
latestBehind(p) ==
    /\ data[p].isLatest /\ answered(p, "manifest")
    /\ world[p]["manifest"].t = "manifest"
    /\ LooseValid(firstManifest(p).version)
    /\ below(firstManifest(p).version, data[p])

\* C11: for a latest descriptor with declared major 0 and an upstream major 0,
\* a greater upstream minor gives outOfDate `major` and an equal minor gives
\* no flag, whatever the patch; no 0.x descriptor is ever graded `minor`.
C11_ZeroMajorBoundary ==
    \A p \in Pkgs :
        (Final /\ Decided(p) /\ status[p].kind = "found" /\ data[p].major = 0)
        => /\ status[p].outOfDate # "minor"
           /\ (data[p].isLatest /\ currentVersion[p].major = 0) =>
                 /\ currentVersion[p].minor > data[p].minor => status[p].outOfDate = "major"
                 /\ currentVersion[p].minor = data[p].minor
                       => status[p].outOfDate = "undefined"

C11_Witness ==
    \E p \in Pkgs :
        /\ Final /\ pc[p] = "done" /\ data[p].isLatest
        /\ data[p].major = 0 /\ data[p].minor = 3
        /\ fullManifest[p].version = Canonical(0, 4, 0)
        /\ writtenFile(p).status.outOfDate = "major"

\* C12, as stated: the latest descriptor declaring 4.14 whose upstream manifest
\* resolves to 4.17.21 and declares no types gets `found` with current
\* 4.17.21 and outOfDate unset.
C12_LodashUnset ==
    \A p \in Pkgs :
        (/\ Final /\ Decided(p) /\ data[p].isLatest
         /\ data[p].major = 4 /\ data[p].minor = 14
         /\ fullManifest[p] = UntypedManifest(Canonical(4, 17, 21), NotDeprecated))
        => /\ status[p].kind = "found"
           /\ status[p].current = Canonical(4, 17, 21)
           /\ status[p].outOfDate = "undefined"

\* C12: that descriptor gets `found` with current 4.17.21 and outOfDate
\* `minor` (major equal, minor 17 above the declared 14).
C12_LodashMinor ==
    \A p \in Pkgs :
        (/\ Final /\ Decided(p) /\ data[p].isLatest
         /\ data[p].major = 4 /\ data[p].minor = 14
         /\ fullManifest[p] = UntypedManifest(Canonical(4, 17, 21), NotDeprecated))
        => /\ status[p].kind = "found"
           /\ status[p].current = Canonical(4, 17, 21)
           /\ status[p].outOfDate = "minor"

C12_Witness ==
    \E p \in Pkgs :
        /\ Final /\ pc[p] = "done" /\ data[p].isLatest
        /\ data[p].major = 4 /\ data[p].minor = 14
        /\ fullManifest[p] = UntypedManifest(Canonical(4, 17, 21), NotDeprecated)
        /\ "jsdelivr" \in reqs[p]
        /\ writtenFile(p).status.current = Canonical(4, 17, 21)

\* C13: a `found` status carries one of too-new, major, minor or nothing, and
\* it carries too-new exactly when the descriptor is latest and the (major,
\* minor) finally resolved is strictly below the declared one.
C13_TooNewFirst ==
    \A p \in Pkgs :
        (Final /\ Decided(p) /\ status[p].kind = "found")
        => /\ status[p].outOfDate \in {"undefined", "too-new", "major", "minor"}
           /\ status[p].outOfDate = "too-new"
                 <=> (data[p].isLatest /\ below(currentVersion[p], data[p]))

C13_Witness ==
    \E p \in Pkgs :
        /\ Final /\ pc[p] = "done" /\ data[p].isLatest
        /\ data[p].major = 5 /\ data[p].minor = 2
        /\ currentVersion[p].major = 5 /\ currentVersion[p].minor = 1
        /\ status[p].kind = "found" /\ status[p].outOfDate = "too-new"

\* the versions of list vs inside ^{declared major}.{declared minor}
inDeclaredRange(vs, d) ==
    {v \in vs : /\ LooseValid(v) /\ v.major = d.major
                /\ IF d.major = 0 THEN v.minor = d.minor ELSE v.minor >= d.minor}
\* the highest version of a non-empty set
highest(vs) == CHOOSE v \in vs : \A w \in vs : ~VersionLess(SemVer(v), SemVer(w))

\* C14: the version list is fetched exactly when `latest` resolved behind the
\* declared version; the highest version inside ^{declared major}.{declared
\* minor} is then re-resolved, and when the list holds no such version no
\* re-resolution happens and `current` is the version of the `latest` manifest.
C14_DeclaredMinorRange ==
    \A p \in Pkgs :
        (Final /\ Decided(p)) =>
            /\ "packument" \in reqs[p] <=> latestBehind(p)
            /\ (/\ latestBehind(p) /\ world[p]["packument"].t = "packument"
                /\ \A v \in world[p]["packument"].versions : StrictValid(v)) =>
                  LET sat == inDeclaredRange(world[p]["packument"].versions, data[p])
                  IN  /\ sat = {} =>
                            /\ "exact" \notin reqs[p]
                            /\ status[p].kind = "found" =>
                                   status[p].current
                                       = Format(SemVer(firstManifest(p).version))
                      /\ sat # {} =>
                            "exact" \in reqs[p] /\ requestedExact(p) = highest(sat)

computed(p) == Final /\ Decided(p) /\ via[p] = "fresh" /\ status[p].kind = "found"

\* C16: a manifest the typed-ness check accepts gives hasTypes `package.json`
\* whenever the status is computed in the run, and no file-listing request,
\* to the primary or to the fallback provider, is issued for the descriptor.
C16_ManifestFirst ==
    \A p \in Pkgs :
        (/\ Final /\ fullManifest[p] # NoManifest
         /\ packageJSONIsTyped(fullManifest[p]) = "typed")
        => /\ reqs[p] \cap FileListingReqs = {}
           /\ (Decided(p) /\ via[p] = "fresh")
                 => status[p].kind = "found" /\ status[p].hasTypes = "package.json"

C16_Witness ==
    \E p \in Pkgs :
        /\ computed(p) /\ pc[p] = "done"
        /\ fullManifest[p] = ExportsDotTypesShape
        /\ writtenFile(p).status.hasTypes = "package.json"
        /\ reqs[p] = {"manifest"}

\* a `types` condition with a truthy value at some depth of the value j
RECURSIVE typesConditionIn(_)
typesConditionIn(j) ==
    /\ j.t = "object"
    /\ \E k \in 1..Len(j.keys) :
          \/ j.keys[k] = "types" /\ Truthy(j.vals[k])
          \/ typesConditionIn(j.vals[k])

\* C17: a status computed in the run has hasTypes `package.json` exactly when
\* the manifest has a truthy `types` or `typings` field or a `types` condition
\* at some depth of `exports`.
C17_TypesAtAnyDepth ==
    \A p \in Pkgs :
        computed(p) =>
            (status[p].hasTypes = "package.json"
                <=> \/ Truthy(fullManifest[p].types)
                    \/ Truthy(fullManifest[p].typings)
                    \/ typesConditionIn(fullManifest[p].exports))

\* the listing #checkPackage scanned: the fallback's when it was asked
usedListing(p) ==
    IF "unpkg" \in reqs[p] THEN world[p]["unpkg"].body ELSE world[p]["jsdelivr"].body
listedNames(p) == SeqToSet(forEachFileInMetadata(usedListing(p)).names)
\* a path with a node_modules directory above the file
underNodeModules(filename) ==
    \E i \in 1..(Len(filename) - 1) :
        filename[i].stem = "node_modules" /\ filename[i].sfx = <<>>
\* p's status came from scanning a listing
scanned(p) == computed(p) /\ "jsdelivr" \in reqs[p]

\* C18: with an untyped manifest, hasTypes is `entrypoint` when the set of
\* listed files outside node_modules holds an entrypoint candidate, else
\* `other` when it holds a declaration file, else unset; it is a function of
\* the set of files, not of their order.
C18_EntrypointWins ==
    \A p \in Pkgs :
        scanned(p) =>
            LET outside == {n \in listedNames(p) : ~includesNodeModules(n)}
                entry == \E n \in outside : n \in candidates(fullManifest[p])
                other == \E n \in outside : dtsMatcher(n)
            IN  status[p].hasTypes
                    = IF entry THEN "entrypoint"
                      ELSE IF other THEN "other" ELSE "undefined"

C18_Witness ==
    \E p \in Pkgs :
        /\ scanned(p) /\ pc[p] = "done"
        /\ usedListing(p) = TreeOtherFirst
        /\ writtenFile(p).status.hasTypes = "entrypoint"

\* C18, second witness: the listing with a declaration file and no candidate
C18_WitnessOther ==
    \E p \in Pkgs :
        /\ scanned(p) /\ pc[p] = "done"
        /\ usedListing(p) = TreeOtherOnly
        /\ writtenFile(p).status.hasTypes = "other"

\* C19: hasTypes of a scanned listing is set only by a file outside
\* node_modules: `entrypoint` needs a candidate there, `other` a declaration
\* file there, and a listing with neither there leaves hasTypes unset.
C19_NodeModulesExcluded ==
    \A p \in Pkgs :
        scanned(p) =>
            LET outside == {n \in listedNames(p) : ~underNodeModules(n)} IN
            /\ status[p].hasTypes = "entrypoint"
                  => \E n \in outside : n \in candidates(fullManifest[p])
            /\ status[p].hasTypes = "other" => \E n \in outside : dtsMatcher(n)
            /\ (\A n \in outside : ~dtsMatcher(n) /\ n \notin candidates(fullManifest[p]))
                  => status[p].hasTypes = "undefined"

C19_Witness ==
    \E p \in Pkgs :
        /\ scanned(p) /\ pc[p] = "done"
        /\ usedListing(p) = TreeVendored
        /\ \E n \in listedNames(p) : underNodeModules(n) /\ dtsMatcher(n)
        /\ writtenFile(p).status.hasTypes = "undefined"

\* the primary provider answered non-OK, or OK with a body that fails validation
primaryFailed(p) ==
    /\ answered(p, "jsdelivr") /\ world[p]["jsdelivr"].t = "response"
    /\ ~world[p]["jsdelivr"].ok \/ world[p]["jsdelivr"].body.t # "metadata"

C20_State ==
    \A p \in Pkgs :
        Final =>
            /\ "unpkg" \in reqs[p] <=> primaryFailed(p)
            /\ (Decided(p) /\ "unpkg" \in reqs[p] /\ world[p]["unpkg"].t = "response"
                /\ (~world[p]["unpkg"].ok \/ world[p]["unpkg"].body.t # "metadata"))
                  => status[p].kind = "error" /\ pc[p] # "fatal" /\ runState # "failed"

C20_Step ==
    \A p \in Pkgs :
        (Final /\ pc'[p] = "unpkg" /\ pc[p] # "unpkg")
            => pc[p] = "jsdelivr" /\ "unpkg" \notin reqs[p]

\* C20: the fallback provider is asked exactly when the primary answered
\* non-OK or OK with an invalid body, in the step that receives that answer
\* and never a second time; a non-OK or malformed answer of the fallback
\* gives an `error` status without failing the run.
C20_ListingFallback == [][C20_Step]_vars /\ []C20_State

C20_Witness ==
    \E p \in Pkgs :
        /\ Final /\ pc[p] = "done"
        /\ world[p]["jsdelivr"].t = "response" /\ world[p]["jsdelivr"].ok
        /\ world[p]["jsdelivr"].body.t # "metadata"
        /\ world[p]["unpkg"].t = "response" /\ world[p]["unpkg"].ok
        /\ world[p]["unpkg"].body.t # "metadata"
        /\ writtenFile(p).status.kind = "error"

\* the host request k goes to
hostOfRequest(k) ==
    IF k \in RegistryReqs THEN Registry ELSE IF k = "jsdelivr" THEN Jsdelivr ELSE Unpkg
\* the requests of kind k waiting for their answer
inFlight(ks) == Cardinality({p \in Pkgs : pc[p] \in ks})

\* C21: every request a descriptor waits for, registry lookups included, sits
\* in the queue that #fetchQueues holds for the hostname it targets.
C21_QueuePerHostname ==
    \A p \in Pkgs :
        (Final /\ pc[p] \in ReqKinds)
        => /\ hostOfRequest(pc[p]) \in DOMAIN fetchQueues
           /\ fetchQueues[hostOfRequest(pc[p])].pending >= 1

C30_State ==
    /\ pacoteQueue.pending <= 20
    /\ \A h \in DOMAIN fetchQueues : fetchQueues[h].pending <= 10
    /\ DOMAIN fetchQueues \subseteq {Jsdelivr, Unpkg}
    \* a task waits only while its queue is full
    /\ pacoteQueue.size > 0 => pacoteQueue.pending = 20
    /\ \A h \in DOMAIN fetchQueues :
          fetchQueues[h].size > 0 => fetchQueues[h].pending = 10
    \* the queues hold the requests the calls wait for, and no others
    /\ scope = "load" =>
          /\ pacoteQueue.pending + pacoteQueue.size = load.registry
          /\ load.jsdelivr > 0 => Jsdelivr \in DOMAIN fetchQueues
          /\ load.unpkg > 0 => Unpkg \in DOMAIN fetchQueues
          /\ Jsdelivr \in DOMAIN fetchQueues =>
                fetchQueues[Jsdelivr].pending + fetchQueues[Jsdelivr].size = load.jsdelivr
          /\ Unpkg \in DOMAIN fetchQueues =>
                fetchQueues[Unpkg].pending + fetchQueues[Unpkg].size = load.unpkg
    /\ (Final /\ scope # "load") =>
          /\ pacoteQueue.pending = inFlight(RegistryReqs) /\ pacoteQueue.size = 0
          /\ \A k \in FileListingReqs :
                /\ hostname(k) \in DOMAIN fetchQueues <=> \E p \in Pkgs : k \in reqs[p]
                /\ hostname(k) \in DOMAIN fetchQueues =>
                      /\ fetchQueues[hostname(k)].pending = inFlight({k})
                      /\ fetchQueues[hostname(k)].size = 0

C30_Step ==
    run' = run =>
        \A h \in DOMAIN fetchQueues :
            /\ h \in DOMAIN fetchQueues'
            /\ fetchQueues'[h].id = fetchQueues[h].id
            /\ fetchQueues'[h].concurrency = fetchQueues[h].concurrency

\* C30: a hostname gets its queue at the first request to it and keeps that
\* queue for the rest of the run; never more than 10 file-listing requests to
\* one hostname and never more than 20 registry lookups run at once, however
\* many descriptors are in flight.
C30_QueueBounds == [][C30_Step]_vars /\ []C30_State

C30_Witness ==
    /\ scope = "load"
    /\ DOMAIN fetchQueues = {Jsdelivr, Unpkg}
    /\ fetchQueues[Jsdelivr].pending = 10 /\ fetchQueues[Jsdelivr].size >= 1
    /\ load.jsdelivr >= 11

\* C30, second witness: the registry queue is full and a lookup waits
C30_WitnessLookups ==
    /\ scope = "load"
    /\ pacoteQueue.pending = 20 /\ pacoteQueue.size >= 1

\* manifest m carries a `deprecated` notice
declaresDeprecation(m) == m.deprecated # Undefined /\ m.deprecated # Null
\* the re-resolution of a too-new descriptor has brought a manifest
reResolved(p) == answered(p, "exact") /\ world[p]["exact"].t = "manifest"
\* the manifest #checkPackage ends with, and the manifest of the `latest` tag
resolvedManifest(p) ==
    IF reResolved(p) THEN world[p]["exact"].manifest ELSE firstManifest(p)
latestTagManifest(p) ==
    IF data[p].isLatest THEN firstManifest(p) ELSE world[p]["latest"].manifest

\* C22: isDeprecated of a found status is true exactly when the manifest
\* finally resolved or the manifest of the `latest` tag carries a deprecation
\* notice; a versioned descriptor asks for the `latest` manifest besides its
\* own, a latest descriptor does not.
C22_DeprecatedEither ==
    \A p \in Pkgs :
        (Final /\ Decided(p) /\ status[p].kind = "found")
        => /\ status[p].isDeprecated
                 = (declaresDeprecation(resolvedManifest(p))
                    \/ declaresDeprecation(latestTagManifest(p)))
           /\ "latest" \in reqs[p] <=> ~data[p].isLatest

C22_Witness ==
    \E p \in Pkgs :
        /\ Final /\ pc[p] = "done" /\ ~data[p].isLatest /\ status[p].kind = "found"
        /\ ~declaresDeprecation(resolvedManifest(p))
        /\ declaresDeprecation(latestTagManifest(p))
        /\ writtenFile(p).status.kind = "found"
        /\ writtenFile(p).status.isDeprecated

\* C22, second witness: the notice is on the re-resolved manifest alone
C22_WitnessReResolved ==
    \E p \in Pkgs :
        /\ Final /\ pc[p] = "done" /\ status[p].kind = "found" /\ reResolved(p)
        /\ declaresDeprecation(resolvedManifest(p))
        /\ ~declaresDeprecation(firstManifest(p))
        /\ writtenFile(p).status.kind = "found"
        /\ writtenFile(p).status.isDeprecated

(***************************************************************************)
(* C23: where the record of a descriptor is stored.                        *)
(***************************************************************************)
separators == {"/", "\\"}

\* subDirectoryPath with every separator replaced by `@`, suffixed `.json`
recordName(sub) ==
    [i \in 1..Len(sub) |-> IF sub[i] \in separators THEN "@" ELSE sub[i]] \o <<".json">>

\* the first path segment of subDirectoryPath: what precedes its first separator
firstSegment(sub) ==
    LET seps == {i \in 1..Len(sub) : sub[i] \in separators}
    IN  IF seps = {} THEN sub
        ELSE SubSeq(sub, 1, (CHOOSE i \in seps : \A j \in seps : i <= j) - 1)

\* file f holds a record of descriptor d
holdsRecordOf(files, f, d) ==
    /\ f \in DOMAIN files
    /\ files[f].t = "record"
    /\ files[f].subDirectoryPath = d.subDirectoryPath

\* C23 as stated: once a descriptor is done, its record is the file
\* <first path segment>/<subDirectoryPath with separators as @>.json.
C23_ShardBySegment ==
    \A p \in Pkgs :
        (scope # "load" /\ pc[p] = "done" /\ writes[p] > 0)
        => holdsRecordOf(outputCache,
                         firstSegment(data[p].subDirectoryPath) \o <<"/">>
                            \o recordName(data[p].subDirectoryPath),
                         data[p])

\* C23, amended: once a descriptor is done, its record is the file
\* <first character of subDirectoryPath>/<subDirectoryPath with separators as
\* @>.json; the previous record was read at the same relative path, and no
\* other file was written for the descriptor.
C23_ShardByFirstCharacter ==
    \A p \in Pkgs :
        (scope # "load" /\ pc[p] = "done" /\ writes[p] > 0)
        => LET sub == data[p].subDirectoryPath
               file == <<sub[1], "/">> \o recordName(sub)
           IN  /\ holdsRecordOf(outputCache, file, data[p])
               /\ inputCache[file] # Unset
               /\ \A f \in DOMAIN outputCache :
                     holdsRecordOf(outputCache, f, data[p]) => f = file

\* a versioned descriptor with a name of two characters has its record in the
\* shard of the first character, under a name without separator
C23_Witness ==
    \E p \in Pkgs :
        /\ Final /\ pc[p] = "done" /\ writes[p] > 0
        /\ ~data[p].isLatest
        /\ Len(firstSegment(data[p].subDirectoryPath)) > 1
        /\ \E f \in DOMAIN outputCache :
              /\ holdsRecordOf(outputCache, f, data[p])
              /\ Len(f) = Len(data[p].subDirectoryPath) + 3
              /\ f[1] = data[p].subDirectoryPath[1] /\ f[2] = "/"
              /\ "@" \in {f[i] : i \in 3..Len(f)}
              /\ \A i \in 3..Len(f) : f[i] \notin separators

(***************************************************************************)
(* C24: a record that cannot be loaded counts as no record.                *)
(***************************************************************************)
\* the file read for p is missing, unreadable, not JSON, not a record of the
\* schema, or a record of another dashboardVersion
loadFailed(p) ==
    \/ priorFile(p).t \in {"absent", "unreadable", "corrupt"}
    \/ /\ priorFile(p).t = "record"
       /\ \/ priorFile(p).status.kind \notin StatusKinds
          \/ priorFile(p).dashboardVersion # dashboardVersion

\* C24: when the previous record cannot be loaded, #checkPackage is handed no
\* prior status and the short-circuit cannot trigger; the run is not aborted,
\* and an `error` status only comes from a request of the reconciliation
\* itself.
C24_LoadFailureIsAbsence ==
    \A p \in Pkgs :
        (Final /\ pc[p] \notin {"start", "read"} /\ loadFailed(p))
        => /\ cached[p] = NoStatus
           /\ via[p] # "cache"
           /\ runState # "failed"
           /\ pc[p] # "fatal"
           /\ (Decided(p) /\ status[p].kind = "error") => reqs[p] # {}

\* a record of the current version that fails the schema is read, and the
\* descriptor is reconciled afresh to a `found` status that replaces it
C24_Witness ==
    \E p \in Pkgs :
        /\ Final /\ pc[p] = "done" /\ via[p] = "fresh"
        /\ priorFile(p).t = "record"
        /\ priorFile(p).dashboardVersion = dashboardVersion
        /\ priorFile(p).status.kind \notin StatusKinds
        /\ status[p].kind = "found"
        /\ writtenFile(p).status = status[p]

\* C24, the other failures: each of a missing, an unreadable and a non-JSON
\* file is followed by a fresh reconciliation
C24_WitnessUnreadable ==
    \E p \in Pkgs :
        /\ Final /\ pc[p] = "done" /\ via[p] = "fresh"
        /\ priorFile(p) = UnreadableFile
        /\ status[p].kind = "found"

C24_WitnessCorrupt ==
    \E p \in Pkgs :
        /\ Final /\ pc[p] = "done" /\ via[p] = "fresh"
        /\ priorFile(p) = CorruptFile
        /\ status[p].kind = "found"

(***************************************************************************)
(* C25: documents that fail validation.                                    *)
(***************************************************************************)
\* the answer to request k of p was a manifest the schema rejects, or one whose
\* version the code went on to parse (line 542 once both lookups of lines
\* 517-519 succeeded, line 565) and cannot
invalidManifest(p, k) ==
    /\ answered(p, k)
    /\ \/ world[p][k].t = "malformed"
       \/ /\ k \in {"manifest", "exact"}
          /\ world[p][k].t = "manifest"
          /\ world[p][k].manifest.version.form = "invalid"
          /\ answered(p, "latest") => world[p]["latest"].t = "manifest"
          /\ pc[p] # "latest"

\* the answer to request k of p was a 2xx response whose body is no file tree
invalidMetadata(p, k) ==
    /\ answered(p, k)
    /\ world[p][k].t = "response" /\ world[p][k].ok
    /\ world[p][k].body.t = "malformed"

\* C25: a descriptor that was handed a manifest or a file tree failing
\* validation ends with an `error` status, and the run is not aborted.
C25_InvalidDocumentIsError ==
    \A p \in Pkgs :
        (/\ Final /\ Decided(p)
         /\ \/ \E k \in RegistryReqs \ {"packument"} : invalidManifest(p, k)
            \/ \E k \in FileListingReqs : invalidMetadata(p, k))
        => status[p].kind = "error" /\ runState # "failed"

(***************************************************************************)
(* C26: the out-of-date flag of a descriptor declaring 0.x.                *)
(***************************************************************************)
flagged(st) == st.outOfDate \in {"major", "minor"}

\* C26 as stated: with declared major 0 an out-of-date flag is set only if the
\* upstream minor exceeds the declared minor.
C26_ZeroMajorByMinorOnly ==
    \A p \in Pkgs :
        (/\ Final /\ Decided(p) /\ status[p].kind = "found" /\ via[p] = "fresh"
         /\ data[p].major = 0 /\ flagged(status[p]))
        => currentVersion[p].minor > data[p].minor

\* C26, amended: with declared major 0 an out-of-date flag is set only if the
\* upstream major exceeds 0 or the upstream minor exceeds the declared minor;
\* a latest descriptor whose upstream major exceeds 0 is flagged `major`
\* whatever the minor, and an upstream 0.x whose minor does not exceed the
\* declared minor sets no flag.
C26_ZeroMajorFlag ==
    \A p \in Pkgs :
        (/\ Final /\ Decided(p) /\ status[p].kind = "found" /\ via[p] = "fresh"
         /\ data[p].major = 0)
        => /\ flagged(status[p])
                 => \/ currentVersion[p].major > 0
                    \/ currentVersion[p].minor > data[p].minor
           /\ (data[p].isLatest /\ currentVersion[p].major > 0)
                 => status[p].outOfDate = "major"
           /\ (currentVersion[p].major = 0 /\ currentVersion[p].minor <= data[p].minor)
                 => ~flagged(status[p])

\* declared 0.3 against upstream 1.0.0: flagged `major`
C26_Witness ==
    \E p \in Pkgs :
        /\ Final /\ pc[p] = "done" /\ data[p].isLatest
        /\ data[p].major = 0 /\ data[p].minor = 3
        /\ fullManifest[p].version = Canonical(1, 0, 0)
        /\ writtenFile(p).status.kind = "found"
        /\ writtenFile(p).status.outOfDate = "major"

(***************************************************************************)
(* C27: the version specifier of the manifest lookups.                     *)
(***************************************************************************)
\* C27: the first manifest is requested with `latest` for a latest descriptor,
\* with "{major}.{minor}" for a versioned descriptor declaring 0.x and with
\* "{major}" for a versioned descriptor declaring major >= 1; the version list
\* and the manifest of a version picked from it are requested only after a
\* first lookup by `latest`.
C27_SpecifierChoice ==
    \A p \in Pkgs :
        (Final /\ "manifest" \in reqs[p])
        => /\ specifiers[p]["manifest"] =
                 (IF data[p].isLatest THEN [t |-> "tag", tag |-> "latest"]
                  ELSE IF data[p].major = 0
                  THEN [t |-> "major.minor", major |-> 0, minor |-> data[p].minor]
                  ELSE [t |-> "major", major |-> data[p].major])
           /\ "packument" \in reqs[p]
                 => specifiers[p]["manifest"] = [t |-> "tag", tag |-> "latest"]
           /\ "exact" \in reqs[p] => "packument" \in reqs[p]
           /\ "latest" \in reqs[p]
                 => specifiers[p]["latest"] = [t |-> "tag", tag |-> "latest"]

\* a versioned descriptor declaring 0.2 asked for `0.2` and got a manifest
C27_Witness ==
    \E p \in Pkgs :
        /\ Final /\ pc[p] = "done" /\ ~data[p].isLatest
        /\ data[p].major = 0 /\ data[p].minor = 2
        /\ specifiers[p]["manifest"] = [t |-> "major.minor", major |-> 0, minor |-> 2]
        /\ status[p].kind = "found"
        /\ "packument" \notin reqs[p]

\* a latest descriptor behind whose declared version `latest` resolved asked
\* for the version list and for the manifest of a version picked from it
C27_WitnessReQuery ==
    \E p \in Pkgs :
        /\ Final /\ pc[p] = "done" /\ data[p].isLatest
        /\ specifiers[p]["manifest"] = [t |-> "tag", tag |-> "latest"]
        /\ {"packument", "exact"} \subseteq reqs[p]
        /\ specifiers[p]["exact"].t = "exact"

\* a versioned descriptor whose resolved version is behind the declared one:
\* no re-query
C27_WitnessNoReQuery ==
    \E p \in Pkgs :
        /\ Final /\ pc[p] = "done" /\ ~data[p].isLatest
        /\ data[p].major = 1 /\ data[p].minor = 2
        /\ specifiers[p]["manifest"] = [t |-> "major", major |-> 1]
        /\ status[p].kind = "found"
        /\ currentVersion[p].major = 1 /\ currentVersion[p].minor < 2
        /\ "packument" \notin reqs[p]

(***************************************************************************)
(* C28: the declaration candidates of the entrypoints.                     *)
(***************************************************************************)
\* the string leaves of a JSON value
RECURSIVE stringLeaves(_)
stringLeaves(j) ==
    IF j.t = "string" THEN {j.v}
    ELSE IF j.t = "object"
    THEN UNION {stringLeaves(j.vals[i]) : i \in 1..Len(j.vals)}
    ELSE {}

\* the target X with the suffixes of its last segment replaced
withSuffixes(X, sfx) == [X EXCEPT ![Len(X)] = [stem |-> X[Len(X)].stem, sfx |-> sfx]]

\* an absolute POSIX path: from the root, without `.` or `..` segments
absolute(X) == resolve(<<>>, X)

\* the declaration files that may stand for the entrypoint X
declarationsFor(X) ==
    LET sfx == X[Len(X)].sfx
        n == Len(sfx)
        ext == IF n = 0 THEN "" ELSE sfx[n]
        stemOf == SubSeq(sfx, 1, n - 1)
    IN  IF ext = "js" THEN {absolute(withSuffixes(X, stemOf \o <<"d", "ts">>))}
        ELSE IF ext = "mjs" THEN {absolute(withSuffixes(X, stemOf \o <<"d", "mts">>))}
        ELSE IF ext = "cjs" THEN {absolute(withSuffixes(X, stemOf \o <<"d", "cts">>))}
        ELSE {absolute(withSuffixes(X, sfx \o <<"d", "ts">>)),
              absolute(X \o <<[stem |-> "index", sfx |-> <<"d", "ts">>]>>)}

\* C28: the candidate set of a manifest is the union of the declarations of
\* its entrypoints, where .js maps to .d.ts, .mjs to .d.mts, .cjs to .d.cts and
\* any other target X to X.d.ts and X/index.d.ts, all as absolute POSIX
\* paths; the entrypoints are the string leaves of `exports` at any depth when
\* the manifest has an `exports` (a string or an object), and otherwise `main`
\* when it is a string, together with the candidate /index.d.ts.
C28_EntrypointCandidates ==
    (call.fn = "candidates" /\ call.done)
    => LET exports == call.arg.exports
           main == call.arg.main
       IN  call.result =
              (IF exports.t \in {"string", "object"}
               THEN UNION {declarationsFor(X) : X \in stringLeaves(exports)}
               ELSE {<<[stem |-> "index", sfx |-> <<"d", "ts">>]>>}
                    \cup (IF main.t = "string" THEN declarationsFor(main.v) ELSE {}))

\* conditional exports {".": {import: ./index.mjs, require: ./index.cjs},
\* "./sub": ./lib/sub} beside a `main`: the four declarations of the three
\* leaves, and nothing for `main`
C28_Witness ==
    /\ call.fn = "candidates" /\ call.done
    /\ call.arg.exports = ConditionalExports
    /\ call.arg.main = Str(LibMainJs)
    /\ call.result = {<<Seg("index", <<"d", "mts">>)>>, <<Seg("index", <<"d", "cts">>)>>,
                      <<Seg("lib", <<>>), Seg("sub", <<"d", "ts">>)>>,
                      <<Seg("lib", <<>>), Seg("sub", <<>>), Seg("index", <<"d", "ts">>)>>}

\* no `exports`, main ./lib/main.js: /lib/main.d.ts and the default /index.d.ts
C28_WitnessMain ==
    /\ call.fn = "candidates" /\ call.done
    /\ call.arg.exports = Undefined
    /\ call.arg.main = Str(LibMainJs)
    /\ call.result = {<<Seg("index", <<"d", "ts">>)>>,
                      <<Seg("lib", <<>>), Seg("main", <<"d", "ts">>)>>}

(***************************************************************************)
(* C29: flattening the file tree.                                          *)
(***************************************************************************)
\* some entry of the tree, at any depth, has neither a name nor a path
RECURSIVE namelessIn(_)
namelessIn(files) ==
    \E i \in 1..Len(files) :
        \/ files[i].path.t # "string" /\ files[i].name.t # "string"
        \/ /\ files[i].type = "directory" /\ files[i].files.t = "array"
           /\ namelessIn(files[i].files.items)

\* the file leaves of a tree whose entries all have a name or a path, in the
\* order of the listing: the entry's path, else its name below its parent
RECURSIVE fileLeaves(_, _)
fileLeaves(parent, files) ==
    IF files = <<>> THEN <<>>
    ELSE LET f == files[1]
             at == IF f.path.t = "string" THEN f.path.v ELSE resolve(parent, f.name.v)
         IN  (IF f.type = "file" THEN <<at>>
              ELSE IF f.files.t = "array" THEN fileLeaves(at, f.files.items)
              ELSE <<>>)
             \o fileLeaves(parent, Tail(files))

filesOf(metadata) == IF metadata.files.t = "array" THEN metadata.files.items ELSE <<>>

\* the listing #checkPackage walked for p, when it walked one
walked(p) ==
    IF answered(p, "unpkg") /\ world[p]["unpkg"].t = "response" /\ world[p]["unpkg"].ok
       /\ world[p]["unpkg"].body.t = "metadata"
    THEN {world[p]["unpkg"].body}
    ELSE IF answered(p, "jsdelivr") /\ "unpkg" \notin reqs[p]
            /\ world[p]["jsdelivr"].t = "response" /\ world[p]["jsdelivr"].ok
            /\ world[p]["jsdelivr"].body.t = "metadata"
    THEN {world[p]["jsdelivr"].body}
    ELSE {}

\* C29: the callback gets every file leaf once, in the listing's order, never
\* a directory, under the entry's path or else its name resolved against the
\* parent's absolute path; a tree with an entry that has neither throws, and
\* the descriptor whose listing it is ends with an `error` status.
C29_FileTreeFlattening ==
    /\ (call.fn = "forEachFileInMetadata" /\ call.done)
       => IF namelessIn(filesOf(call.arg)) THEN call.result.threw
          ELSE /\ ~call.result.threw
               /\ call.result.names = fileLeaves(<<>>, filesOf(call.arg))
    /\ \A p \in Pkgs :
          (Final /\ Decided(p) /\ \E m \in walked(p) : namelessIn(filesOf(m)))
          => status[p].kind = "error"

\* a tree two directories deep, with a directory without `files` and an empty
\* one: four names, none of a directory
C29_Witness ==
    /\ call.fn = "forEachFileInMetadata" /\ call.done
    /\ call.arg = TreeNested
    /\ call.result.names = << <<Seg("index", <<"js">>)>>,
                              <<Seg("lib", <<>>), Seg("a", <<"d", "ts">>)>>,
                              <<Seg("lib", <<>>), Seg("deep", <<>>), Seg("b", <<"d", "ts">>)>>,
                              <<Seg("a", <<"d", "ts">>)>> >>

\* an entry with both: the path is taken, for a file and for a directory
C29_WitnessPath ==
    /\ call.fn = "forEachFileInMetadata" /\ call.done
    /\ call.arg = TreePathAndName
    /\ call.result.names = <<OtherDts, <<Seg("lib", <<>>), Seg("b", <<"d", "ts">>)>> >>

\* a listing with index.d.ts followed by an entry without name and path: the
\* record written carries `error`, not hasTypes from the part walked
C29_WitnessError ==
    \E p \in Pkgs :
        /\ Final /\ pc[p] = "done"
        /\ walked(p) = {TreeNamelessLast}
        /\ writtenFile(p).status.kind = "error"
        /\ via[p] = "caught"

(***************************************************************************)
(* C31: the progress counter.                                              *)
(***************************************************************************)
\* this.total (line 391): the number of descriptors of the run
total == Cardinality(Pkgs)
\* the records written so far in this run
written == {p \in Pkgs : pc[p] = "done"}

\* C31: the completed-count starts at 0, grows by exactly 1 with each record
\* written and with nothing else, never decreases within a run, never exceeds
\* the total, and equals the number of descriptors when the run has completed.
C31_State ==
    /\ count = Cardinality(written)
    /\ count >= 0 /\ count <= total
    /\ (\A p \in Pkgs : pc[p] = "start") => count = 0
    /\ runState = "completed" => count = total

C31_Step ==
    run' = run =>
        /\ count' \in {count, count + 1}
        /\ count' = count + 1 <=>
              \E p \in Pkgs :
                  /\ pc[p] = "write" /\ pc'[p] = "done"
                  /\ writes'[p] = writes[p] + 1
                  /\ writtenFile(p)' = CachedInfo(writtenVersion, data[p], status[p])

C31_ProgressCounter == []C31_State /\ [][C31_Step]_vars

\* a run of two descriptors has completed, one of them with an error record,
\* and the counter stands at two
C31_Witness ==
    /\ runState = "completed" /\ total = 2 /\ count = 2
    /\ \E p \in Pkgs : status[p].kind = "error"
    /\ \E p \in Pkgs : status[p].kind = "found"

\* one of two records is written: the counter stands at one in a running run
C31_WitnessMidRun ==
    /\ runState = "running" /\ total = 2 /\ count = 1
    /\ \E p \in Pkgs : pc[p] = "done"
    /\ \E p \in Pkgs : pc[p] \notin {"done", "write", "start", "read"}

(***************************************************************************)
(* C32: the order of the steps of one descriptor.                          *)
(***************************************************************************)
\* the previous record of p has been read (lines 463-475)
cacheRead(p) == pc[p] \notin {"start", "read"}

\* the lookups of lines 517-519 of p have both resolved to a manifest
manifestsResolved(p) ==
    /\ answered(p, "manifest") /\ world[p]["manifest"].t = "manifest"
    /\ ~data[p].isLatest => answered(p, "latest") /\ world[p]["latest"].t = "manifest"

\* the too-new resolution of p (lines 555-566), if it was entered, ran to its
\* end without an exception: the version list arrived and was sorted, and the
\* manifest of the selected version, if any, arrived with a version that parses
reResolutionSucceeded(p) ==
    "packument" \in reqs[p] =>
        /\ answered(p, "packument") /\ world[p]["packument"].t = "packument"
        /\ LET pick == pickFromPackument(world[p]["packument"].versions, specifierOf(data[p]))
           IN  /\ ~pick.threw
               /\ pick.found =>
                     /\ answered(p, "exact") /\ world[p]["exact"].t = "manifest"
                     /\ LooseValid(world[p]["exact"].manifest.version)

\* C32: within one descriptor the cache read precedes manifest resolution; no
\* packument request is issued before the `latest` manifest has resolved; no
\* file-listing request is issued before manifest resolution and any too-new
\* re-resolution have completed successfully and the manifest check has come
\* out negative; the record is written after all of these.
C32_StepOrdering ==
    \A p \in Pkgs :
        Final =>
            /\ reqs[p] # {} => cacheRead(p)
            /\ "packument" \in reqs[p] =>
                  /\ data[p].isLatest /\ specifiers[p]["manifest"] = LatestTag
                  /\ answered(p, "manifest") /\ world[p]["manifest"].t = "manifest"
            /\ reqs[p] \cap FileListingReqs # {} =>
                  /\ manifestsResolved(p)
                  /\ reResolutionSucceeded(p)
                  /\ packageJSONIsTyped(fullManifest[p]) = "untyped"
            /\ Decided(p) => \A k \in reqs[p] : answered(p, k)

\* the orderings that hold when the swallowed failure of the too-new
\* resolution is left aside
C32_OrderingOfTheRest ==
    \A p \in Pkgs :
        Final =>
            /\ reqs[p] # {} => cacheRead(p)
            /\ "packument" \in reqs[p] =>
                  /\ data[p].isLatest /\ specifiers[p]["manifest"] = LatestTag
                  /\ answered(p, "manifest") /\ world[p]["manifest"].t = "manifest"
            /\ reqs[p] \cap FileListingReqs # {} =>
                  /\ manifestsResolved(p)
                  /\ "packument" \in reqs[p] => answered(p, "packument")
                  /\ "exact" \in reqs[p] => answered(p, "exact")
                  /\ packageJSONIsTyped(fullManifest[p]) = "untyped"
            /\ Decided(p) => \A k \in reqs[p] : answered(p, k)

(***************************************************************************)
(* C33: exportsSimilar.                                                    *)
(***************************************************************************)
nullish(j) == j.t \in {"null", "undefined"}
plainObject(j) == j.t = "object"
ownKeys(j) == {j.keys[i] : i \in 1..Len(j.keys)}

\* C33: exportsSimilar(a, b) treats null and undefined as equal, is false for
\* two values of different typeof, true for two non-objects of one typeof, and
\* for two plain objects true exactly when their sets of own keys are equal,
\* whatever the values; it is symmetric, and true of a value and itself.
C33_ExportsSimilar ==
    (call.fn = "exportsSimilar" /\ call.done)
    => LET a == call.arg[1]
           b == call.arg[2]
           r == call.result
       IN  /\ (nullish(a) /\ nullish(b)) => r.ab
           /\ typeofJs(a) # typeofJs(b) => ~r.ab
           /\ (typeofJs(a) = typeofJs(b) /\ typeofJs(a) # "object") => r.ab
           /\ (plainObject(a) /\ plainObject(b)) => (r.ab <=> ownKeys(a) = ownKeys(b))
           /\ r.ab = r.ba
           /\ r.aa

\* the same keys in another order and with other values: similar
C33_Witness ==
    /\ call.fn = "exportsSimilar" /\ call.done
    /\ call.arg[1] = Obj(<<".", "./internal">>, <<Str(IndexJs), Null>>)
    /\ call.arg[2] = Obj(<<"./internal", ".">>, <<Str(IndexMjs), Str(IndexJs)>>)
    /\ call.result.ab /\ call.result.ba

\* as many keys, one of them another: not similar
C33_WitnessKeys ==
    /\ call.fn = "exportsSimilar" /\ call.done
    /\ call.arg[1] = Obj(<<".", "./internal">>, <<Str(IndexJs), Null>>)
    /\ call.arg[2] = Obj(<<".", "./sub">>, <<Str(IndexJs), Str(LibSub)>>)
    /\ ~call.result.ab /\ ~call.result.ba

\* null against undefined: similar; null against an object: not
C33_WitnessNull ==
    /\ call.fn = "exportsSimilar" /\ call.done
    /\ call.arg[1] = Null
    /\ \/ call.arg[2] = Undefined /\ call.result.ab
       \/ call.arg[2] = Obj(<<>>, <<>>) /\ ~call.result.ab

(***************************************************************************)
(* C34: descriptors of an older line carry no out-of-date flag.            *)
(***************************************************************************)
\* C34: a `found` status freshly computed for a descriptor that is not the
\* latest variant has no outOfDate, whatever the relation between the
\* declared and the resolved version.
C34_OlderLineUnflagged ==
    \A p \in Pkgs :
        (/\ Final /\ Decided(p) /\ status[p].kind = "found" /\ via[p] = "fresh"
         /\ ~data[p].isLatest)
        => status[p].outOfDate = "undefined"

\* a versioned descriptor whose line has moved on by a minor version
C34_Witness ==
    \E p \in Pkgs :
        /\ Final /\ pc[p] = "done" /\ ~data[p].isLatest
        /\ status[p].kind = "found" /\ via[p] = "fresh"
        /\ currentVersion[p].major = data[p].major
        /\ currentVersion[p].minor > data[p].minor
        /\ status[p].outOfDate = "undefined"

\* a versioned descriptor ahead of the version its line resolves to
C34_WitnessBehind ==
    \E p \in Pkgs :
        /\ Final /\ pc[p] = "done" /\ ~data[p].isLatest
        /\ status[p].kind = "found" /\ via[p] = "fresh"
        /\ below(currentVersion[p], data[p])
        /\ status[p].outOfDate = "undefined"

(***************************************************************************)
(* C35: the drift fields of a record.                                      *)
(***************************************************************************)
\* line 674 for descriptor d and manifest m
typeMatches(d, m) ==
    (IF d.packageJsonType = "undefined" THEN "commonjs" ELSE d.packageJsonType)
    = (IF m.type = "undefined" THEN "commonjs" ELSE m.type)

C35_DriftFieldsAsComputed ==
    \A p \in Pkgs :
        (/\ Final /\ pc[p] = "done" /\ status[p].kind = "found"
         /\ writtenFile(p).t = "record")
        => /\ via[p] = "fresh" =>
                 /\ writtenFile(p).status.packageJsonTypeMatches
                       = typeMatches(data[p], fullManifest[p])
                 /\ writtenFile(p).status.exportsSimilar
                       = exportsSimilar(data[p].exports, fullManifest[p].exports)
           /\ via[p] = "cache" => writtenFile(p).status = priorFile(p).status

(***************************************************************************)
(* C36: `current` and the manifest it is reported for.                     *)
(***************************************************************************)
\* #checkPackage of p is past the too-new resolution: it waits for a file
\* listing or has returned a status computed from its locals
pastResolution(p) ==
    \/ pc[p] \in FileListingReqs
    \/ Decided(p) /\ via[p] \in {"fresh", "cache", "metadataFailure"}
    \/ Decided(p) /\ via[p] = "caught" /\ reqs[p] \cap FileListingReqs # {}

\* C36: where the deprecation flag, the cache comparison, the typed-ness check
\* and the result are computed, the version reported as `current` is the
\* canonical form of the version of the manifest held in fullManifest, also
\* when the packument fetch, the re-resolution or the parsing of the
\* re-resolved version failed and the failure was swallowed.
C36_CurrentIsOfFullManifest ==
    \A p \in Pkgs :
        (Final /\ pastResolution(p))
        => /\ LooseValid(fullManifest[p].version)
           /\ currentVersion[p] = SemVer(fullManifest[p].version)
           /\ (status[p].kind = "found" /\ via[p] = "fresh")
                 => status[p].current = Format(SemVer(fullManifest[p].version))

\* what holds instead: `current` is the canonical form of the last version
\* that parsed, which is the version of fullManifest unless the re-resolved
\* manifest carries a version that does not parse
C36_CurrentIsOfLastParsed ==
    \A p \in Pkgs :
        (Final /\ pastResolution(p))
        => /\ (status[p].kind = "found" /\ via[p] = "fresh")
                 => status[p].current = Format(currentVersion[p])
           /\ IF LooseValid(fullManifest[p].version)
              THEN currentVersion[p] = SemVer(fullManifest[p].version)
              ELSE /\ answered(p, "exact")
                   /\ fullManifest[p] = world[p]["exact"].manifest
                   /\ currentVersion[p] = SemVer(world[p]["manifest"].manifest.version)

(***************************************************************************)
(* C37: a written record is a loadable record.                             *)
(***************************************************************************)
\* the status kinds #checkPackage and the catch of #checkPackageCached return
producedKinds ==
    {"found", "not-in-registry", "unpublished", "missing-version", "non-npm",
     "conflict", "error"}

C37_WitnessConflict ==
    \E p \in Pkgs :
        /\ Final /\ run = 2 /\ pc[p] = "done"
        /\ cached[p] = [kind |-> "conflict"] /\ priorFile(p).status = cached[p]

C37_WitnessError ==
    \E p \in Pkgs :
        /\ Final /\ run = 2 /\ pc[p] = "done"
        /\ cached[p].kind = "error" /\ priorFile(p).status = cached[p]

(***************************************************************************)
(* C38: one output file per descriptor.                                    *)
(***************************************************************************)
\* the descriptors whose record is the file f
writersOf(f) == {p \in Pkgs : outputPathOf(data[p]) = f}

\* C38: two descriptors of one run with distinct subDirectoryPath have distinct
\* output paths, so under every interleaving a file is written by one
\* descriptor only and holds that descriptor's record when the run has
\* completed.  The descriptors are those of a DefinitelyTyped checkout:
\* directory names without `@`, versions in a subdirectory v<major>.
C38_State ==
    Final =>
        /\ \A p, q \in Pkgs :
              data[p].subDirectoryPath # data[q].subDirectoryPath
                  => outputPathOf(data[p]) # outputPathOf(data[q])
        /\ \A p \in Pkgs :
              pc[p] = "done" => writtenFile(p) = CachedInfo(writtenVersion, data[p], status[p])
        /\ runState = "completed" =>
              \A p \in Pkgs :
                  /\ writtenFile(p).t = "record"
                  /\ writtenFile(p).subDirectoryPath = data[p].subDirectoryPath
                  /\ writtenFile(p).status = status[p]

C38_Step ==
    (Final /\ run' = run) =>
        \A f \in DOMAIN outputCache :
            outputCache'[f] # outputCache[f] =>
                \E p \in Pkgs :
                    /\ writersOf(f) = {p}
                    /\ pc[p] = "write" /\ pc'[p] = "done" /\ writes[p] = 0

C38_NoWriteWriteRace == []C38_State /\ [][C38_Step]_vars

\* a package and its v1 directory, in the same shard, processed concurrently:
\* the second wrote while the first still waited, and both records stand
C38_Witness ==
    /\ scope = "run" /\ runState = "completed"
    /\ data[1].subDirectoryPath = <<"a", "a">>
    /\ data[2].subDirectoryPath = <<"a", "a", "/", "v", "1">>
    /\ outputPathOf(data[1]) = <<"a", "/", "a", "a", ".json">>
    /\ outputPathOf(data[2]) = <<"a", "/", "a", "a", "@", "v", "1", ".json">>
    /\ status[1].kind = "found" /\ status[2].kind = "missing-version"
    /\ writtenFile(1).status = status[1] /\ writtenFile(2).status = status[2]

\* two packages of one shard with both records not yet written
C38_WitnessConcurrent ==
    /\ scope = "run" /\ pc[1] = "write" /\ pc[2] = "write"
    /\ data[1].subDirectoryPath[1] = data[2].subDirectoryPath[1]
    /\ data[2].isLatest

(***************************************************************************)
(* C39: the typed-ness check on a manifest with a null export target.      *)
(***************************************************************************)
\* `exports` is absent, a string, or a map whose values are strings, nested
\* objects or null
wellFormedExports(e) ==
    e.t = "object" => \A i \in 1..Len(e.vals) : e.vals[i].t \in {"string", "object", "null"}

\* #checkPackage of p parsed the resolved version, got past the lookups and
\* ended without asking for a file listing: by the cache short-circuit or by
\* what packageJSONIsTyped made of the manifest
endedAtManifestCheck(p) ==
    /\ Decided(p) /\ via[p] # "manifestFailure"
    /\ fullManifest[p] # NoManifest /\ currentVersion[p] # NoVersion
    /\ reqs[p] \cap FileListingReqs = {}

\* C39: packageJSONIsTyped returns a boolean for every manifest whose
\* `exports` map has strings, nested objects or null as values, so a
\* descriptor that ends at the manifest check ends with `found`, not `error`.
C39_TypedNessNeverFails ==
    \A p \in Pkgs :
        (Final /\ endedAtManifestCheck(p) /\ wellFormedExports(fullManifest[p].exports))
        => /\ packageJSONIsTyped(fullManifest[p]) \in {"typed", "untyped"}
           /\ status[p].kind = "found"

(***************************************************************************)
(* C40: termination.                                                       *)
(***************************************************************************)
\* how far #checkPackageCached of one descriptor has come, by the await it
\* stands at (lines 461, 465, 517, 519, 555, 563, 700, 714, 498)
position(at) ==
    CASE at = "start" -> 0
      [] at = "read" -> 1
      [] at \in {"manifest", "header"} -> 2
      [] at \in {"latest", "unpkgManifest"} -> 3
      [] at = "packument" -> 4
      [] at = "exact" -> 5
      [] at = "jsdelivr" -> 6
      [] at = "unpkg" -> 7
      [] at = "write" -> 8
      [] OTHER -> 9

\* a run has ended: every descriptor has written its one record, the counter
\* has reached the total
C40_State ==
    (Final /\ runState = "completed") =>
        /\ count = Cardinality(Pkgs)
        /\ \A p \in Pkgs : pc[p] = "done" /\ writes[p] = 1

\* within a run a descriptor only moves forward: no request is issued twice,
\* no failure sends #checkPackage back to an earlier step
C40_Step ==
    run' = run => \A p \in Pkgs : pc'[p] # pc[p] => position(pc'[p]) > position(pc[p])

\* C40: every request ending and every continuation being run, each descriptor
\* launched by execute() finishes by writing its record, its reconciliation is
\* executed once per run whatever request failed, and the run completes with
\* count = total, or fails where a FatalError is raised (the unpkg variant).
C40_Termination ==
    /\ []C40_State
    /\ [][C40_Step]_vars
    /\ (Pkgs # {} /\ runState = "running")
          ~> \/ runState = "completed" /\ count = Cardinality(Pkgs)
             \/ ~Final /\ runState = "failed"

\* two descriptors, one of which met a failed file-listing request, in a
\* completed run
C40_Witness ==
    \E p, q \in Pkgs :
        /\ Final /\ p # q /\ runState = "completed" /\ count = 2
        /\ world[p]["jsdelivr"] = Thrown /\ status[p].kind = "error" /\ writes[p] = 1
        /\ pc[q] = "done" /\ writes[q] = 1

\* a descriptor that went through every request of the too-new resolution
C40_WitnessLongest ==
    \E p \in Pkgs :
        /\ Final /\ pc[p] = "done" /\ writes[p] = 1
        /\ {"manifest", "packument", "exact"} \subseteq reqs[p]

====
